---- MODULE Spec2Model ----
(***************************************************************************)
(* Verification model of the Google Drive uploader bot.                    *)
(*                                                                         *)
(* The module holds several specifications over one set of variables:      *)
(*   SpecSize   formatFileSize / parseFileSize (utils/helpers)             *)
(*   SpecPerm   MessageReactionAdd handler and canTriggerUpload            *)
(*   SpecCodec  sendFolderSelectionMessage / extractRequestFromDMEmbed     *)
(*   SpecCache  GoogleDriveService's folder cache and its readers          *)
(*   SpecScan   the cache rebuilds alone, every listing answered           *)
(*   SpecSubmit the requester's confirm and cancel on the state card       *)
(*   SpecReview approve, deny and officer edit on a review card            *)
(*   SpecResolve resolution of a destination path to a folder id           *)
(* Each specification moves only its own group of variables; the other     *)
(* groups stay at their idle value.                                        *)
(*                                                                         *)
(* Text is modelled as a sequence of tokens.  A token is an atom of text:  *)
(* a word, a separator such as "/", or one of the literal sentinel texts   *)
(* the code writes and strips ("*(none)*", "*(Root)*", ...).               *)
(***************************************************************************)
EXTENDS Integers, Sequences, FiniteSets, TLC

VARIABLES
    \* ---- SpecSize: one formatFileSize / parseFileSize round trip
    szBytes,      \* the byte size handed to formatFileSize
    szText,       \* the rendered size text: [hundredths, unit] or NoText
    szParsed,     \* parseFileSize's result, in hundredths of a byte
    szPc,         \* "in" -> "text" -> "done"
    \* ---- SpecPerm: the reaction handler
    pmConfig,     \* config.json: uploadChannels, officerPermission, uploadEmoji
    pmEvent,      \* the reaction event last handled (NoEvent before any)
    pmCheck,      \* canTriggerUpload's result for that event (NoCheck if not called)
    pmOut,        \* what the handler did for that event: messages sent to the
                  \* reacting user, and whether it stored a request
    pmHandled,    \* number of reaction events handled
    \* ---- SpecCodec: one render / decode round trip of the state card
    cdReq,        \* the request handed to sendFolderSelectionMessage
    cdEmbed,      \* the embed it rendered
    cdOut,        \* extractRequestFromDMEmbed's result
    cdPc,         \* "in" -> "card" -> "done"
    \* ---- SpecCache: the folder cache of GoogleDriveService
    drive,        \* the backend's folders, in listing order: [id, name, parents]
    cfgRoot,      \* config.get('rootFolderId'), "" when not set
    envRoot,      \* process.env.DEFAULT_DRIVE_FOLDER_ID, "" when not set
    fcTree,       \* folderCache.tree
    fcFlat,       \* folderCache.flat, in insertion order
    fcPublished,  \* the cache as the last completed rebuild left it (history)
    rb,           \* the buildFolderCache calls in progress, per caller
    rbStarted,    \* number of buildFolderCache calls made
    rdObs,        \* the last read of the cache and what it returned
    \* ---- SpecSubmit, SpecReview: one upload request from confirm to decision
    build,        \* "modular" (interactions.js) or "legacy" (index.js)
    dmCard,       \* the requester's state card: [exists, embed, components,
                  \* options (of the select menu), back (the Back button)]
    uploadRequests,  \* the entry of the uploadRequests Map for the request
    approvalChannel, \* client.channels.cache.get(process.env.APPROVAL_CHANNEL_ID)
    approvalConfig,  \* config.json: approvalMappings, defaultApprovalChannelId
    reviewCards,  \* review cards in approvalChannel: [embed, components]
    tasks,        \* interaction handlers started, in order of arrival
    delivered,    \* number of interactions delivered
    modalOpen,    \* an officer has the edit form open
    detailsOpen,  \* the requester has the edit-details form open
    usersCache,   \* the requester is in client.users.cache
    attachment,   \* the attachment of the message the request was made from
    uploads,      \* files created in the backend
    notices,      \* direct messages sent to the requester
    \* ---- SpecResolve: one destination path resolved again and again
    rsPath,       \* the destination path
    rsCalls,      \* per call: the id returned and the folders it created
    \* ---- SpecAdmin: the admin slash commands and the refresh timer
    adConfig,     \* currentConfig of utils/config.js
    adCache,      \* the service's rootFolderId and folderCache, in short
    adLog,        \* the buildFolderCache calls made: [at, by, outcome]
    adReply,      \* the last command and how it was answered
    adCount,      \* number of commands received
    now,          \* the clock, in ticks
    nextTick      \* when the setInterval callback of main fires next

sizeVars == <<szBytes, szText, szParsed, szPc>>
permVars == <<pmConfig, pmEvent, pmCheck, pmOut, pmHandled>>
codecVars == <<cdReq, cdEmbed, cdOut, cdPc>>
cacheVars == <<drive, cfgRoot, envRoot, fcTree, fcFlat, fcPublished, rb, rbStarted, rdObs>>
flowVars == <<build, dmCard, uploadRequests, approvalChannel, approvalConfig,
              reviewCards, tasks,
              delivered, modalOpen, detailsOpen, usersCache, attachment, uploads,
              notices>>
resolveVars == <<rsPath, rsCalls>>
adminVars == <<adConfig, adCache, adLog, adReply, adCount, now, nextTick>>
vars == <<sizeVars, permVars, codecVars, cacheVars, flowVars, resolveVars, adminVars>>

-----------------------------------------------------------------------------
(* formatFileSize / parseFileSize                                          *)

\* const k = 1024
K == 1024

\* sizes = ['Bytes', 'KB', 'MB', 'GB']; sizes[i] for i >= 4 is undefined and
\* string concatenation prints it as "undefined".
SizeUnit(i) ==
    CASE i = 0 -> "Bytes"
      [] i = 1 -> "KB"
      [] i = 2 -> "MB"
      [] i = 3 -> "GB"
      [] OTHER -> "undefined"

RECURSIVE Pow(_, _)
Pow(b, e) == IF e = 0 THEN 1 ELSE b * Pow(b, e - 1)

\* Math.floor(Math.log(bytes) / Math.log(k)) for bytes >= 1
RECURSIVE UnitIndexFrom(_, _)
UnitIndexFrom(bytes, i) ==
    IF bytes < K THEN i ELSE UnitIndexFrom(bytes \div K, i + 1)

UnitIndex(bytes) == UnitIndexFrom(bytes, 0)

\* (bytes / k^i).toFixed(2): the quotient rounded to two decimals, ties up,
\* kept as an integer number of hundredths.
ToFixed2(bytes, p) == (2 * bytes * 100 + p) \div (2 * p)

NoText == [hundredths |-> -1, unit |-> "none"]

\* formatFileSize(bytes): parseFloat(...toFixed(2)) + ' ' + sizes[i].
\* parseFloat only drops trailing zeros, so the number is kept in hundredths.
formatFileSize(bytes) ==
    IF bytes = 0
    THEN [hundredths |-> 0, unit |-> "Bytes"]
    ELSE LET i == UnitIndex(bytes)
         IN  [hundredths |-> ToFixed2(bytes, Pow(K, i)), unit |-> SizeUnit(i)]

\* parseFileSize(str): the regex accepts only the four units; the value is
\* multiplied by the unit's factor.  The result is a JavaScript number and
\* need not be an integer: it is kept in hundredths of a byte.
parseFileSize(text) ==
    CASE text.unit = "Bytes" -> text.hundredths
      [] text.unit = "KB"    -> text.hundredths * K
      [] text.unit = "MB"    -> text.hundredths * K * K
      [] text.unit = "GB"    -> text.hundredths * K * K * K
      [] OTHER               -> 0

\* Sizes tried: every size up to SmallBytes and sizes around the unit steps.
SmallBytes == 48

SizeInputs ==
    (0 .. SmallBytes) \cup
    { K - 1, K, K + 1, K + 512, 2 * K, 10 * K + 5, 1000 * K,
      K * K - 1, K * K, K * K + 1, 2400000, 3 * K * K, 5 * K * K + 1 }

SizeIdle ==
    /\ szBytes = 0
    /\ szText = NoText
    /\ szParsed = 0
    /\ szPc = "idle"

SizeInit ==
    /\ szBytes \in SizeInputs
    /\ szText = NoText
    /\ szParsed = 0
    /\ szPc = "in"

SzFormat ==
    /\ szPc = "in"
    /\ szText' = formatFileSize(szBytes)
    /\ szPc' = "text"
    /\ UNCHANGED <<szBytes, szParsed>>
    /\ UNCHANGED <<permVars, codecVars, cacheVars, flowVars, resolveVars, adminVars>>

SzParse ==
    /\ szPc = "text"
    /\ szParsed' = parseFileSize(szText)
    /\ szPc' = "done"
    /\ UNCHANGED <<szBytes, szText>>
    /\ UNCHANGED <<permVars, codecVars, cacheVars, flowVars, resolveVars, adminVars>>

-----------------------------------------------------------------------------
(* Text                                                                    *)

\* A text is a sequence of tokens.  A token is [s, n]: a piece of text s,
\* with n = 0, or a rendered size, with s its unit and n its number in
\* hundredths.
W(str) == [s |-> str, n |-> 0]

SizeToken(text) == [s |-> text.unit, n |-> text.hundredths]

IsSizeToken(tok) == tok.s \in {"Bytes", "KB", "MB", "GB"}

EmptyText == <<>>

\* Index of the first occurrence of token tok in text t at or after position
\* from; 0 when there is none.
RECURSIVE IndexOfFrom(_, _, _)
IndexOfFrom(t, tok, from) ==
    IF from > Len(t) THEN 0
    ELSE IF t[from] = tok THEN from
    ELSE IndexOfFrom(t, tok, from + 1)

\* String.prototype.replace(literal, ''): removes the first occurrence only.
ReplaceFirst(t, tok) ==
    LET i == IndexOfFrom(t, tok, 1)
    IN  IF i = 0 THEN t
        ELSE SubSeq(t, 1, i - 1) \o SubSeq(t, i + 1, Len(t))

\* a || b on strings: the empty string is falsy.
OrElse(t, dflt) == IF t = EmptyText THEN dflt ELSE t

-----------------------------------------------------------------------------
(* Request State Codec: sendFolderSelectionMessage / extractRequestFromDMEmbed *)

RootMark == W("*(Root)*")
NoneMark == W("*(none)*")
Slash    == W("/")

FilePrefix == W("**File:** [")
FileMid    == W("](")
FileSizeOpen == W(") (")
FileClose  == W(")")

StateCardTitle == "Upload to Google Drive"

NoEmbed == [title |-> "", description |-> EmptyText, location |-> EmptyText,
            fileName |-> EmptyText, descriptionField |-> EmptyText]

NoRequest == [attachmentUrl |-> EmptyText, fileSize |-> 0,
              originalFileName |-> EmptyText, fileName |-> EmptyText,
              description |-> EmptyText, currentPath |-> EmptyText,
              found |-> FALSE]

\* The embed sendFolderSelectionMessage builds.  location, fileName and
\* descriptionField are the values of the fields 'Current Location',
\* 'File Name' and 'Description'.  request.fileSize is in hundredths of a
\* byte (see parseFileSize).
FolderSelectionEmbed(request) ==
    [ title |-> StateCardTitle,
      description |->
          <<FilePrefix>> \o request.originalFileName \o <<FileMid>>
          \o request.attachmentUrl \o <<FileSizeOpen>>
          \o <<SizeToken(formatFileSize(request.fileSize \div 100))>>
          \o <<FileClose>>,
      location |-> OrElse(request.currentPath, <<RootMark>>),
      fileName |-> request.fileName,
      descriptionField |-> OrElse(request.description, <<NoneMark>>) ]

\* embed.description.match(/\*\*File:\*\* \[(.+?)\]\((.+?)\) \((.+?)\)/):
\* the three groups, each the shortest non-empty run of tokens before the
\* next separator; matched is FALSE when the pattern does not occur.
MatchFileLine(t) ==
    LET p == IndexOfFrom(t, FilePrefix, 1)
        q == IF p = 0 THEN 0 ELSE IndexOfFrom(t, FileMid, p + 2)
        r == IF q = 0 THEN 0 ELSE IndexOfFrom(t, FileSizeOpen, q + 2)
        e == IF r = 0 THEN 0 ELSE IndexOfFrom(t, FileClose, r + 2)
    IN  IF e = 0
        THEN [matched |-> FALSE, name |-> EmptyText, url |-> EmptyText, size |-> EmptyText]
        ELSE [matched |-> TRUE,
              name |-> SubSeq(t, p + 1, q - 1),
              url  |-> SubSeq(t, q + 1, r - 1),
              size |-> SubSeq(t, r + 1, e - 1)]

\* parseFileSize applied to the text of the third group.
ParseSizeText(t) ==
    IF Len(t) = 1 /\ IsSizeToken(t[1])
    THEN parseFileSize([hundredths |-> t[1].n, unit |-> t[1].s])
    ELSE 0

\* extractRequestFromDMEmbed(embed, interaction); found = FALSE is null.
extractRequestFromDMEmbed(embed) ==
    IF embed.title # StateCardTitle THEN NoRequest
    ELSE LET m == MatchFileLine(embed.description)
         IN  IF ~m.matched THEN NoRequest
             ELSE [ attachmentUrl |-> m.url,
                    fileSize |-> ParseSizeText(m.size),
                    originalFileName |-> m.name,
                    fileName |-> embed.fileName,
                    description |-> ReplaceFirst(embed.descriptionField, NoneMark),
                    currentPath |-> ReplaceFirst(embed.location, RootMark),
                    found |-> TRUE ]

\* Requests tried.  A path is folder names joined by "/"; a file name, a
\* description and a folder name are any text the chat platform and the
\* storage backend accept.
CodecPaths ==
    { EmptyText, <<W("art")>>, <<W("art"), Slash, W("2024")>>,
      <<RootMark>>, <<W("art"), Slash, RootMark>> }

CodecDescriptions ==
    { EmptyText, <<W("a sketch")>>, <<NoneMark>>, <<W("a sketch"), NoneMark>> }

CodecFileNames == { <<W("art.png")>>, <<W("final.png")>> }

CodecUrls == { <<W("https://cdn/1/art.png")>>, <<W("https://cdn/2/art.png")>> }

CodecSizes == { 0, 51200, 240000000 }

CodecRequests ==
    [ attachmentUrl : CodecUrls, fileSize : CodecSizes,
      originalFileName : {<<W("art.png")>>}, fileName : CodecFileNames,
      description : CodecDescriptions, currentPath : CodecPaths,
      found : {TRUE} ]

CodecIdle ==
    /\ cdReq = NoRequest
    /\ cdEmbed = NoEmbed
    /\ cdOut = NoRequest
    /\ cdPc = "idle"

CodecInit ==
    /\ cdReq \in CodecRequests
    /\ cdEmbed = NoEmbed
    /\ cdOut = NoRequest
    /\ cdPc = "in"

CdRender ==
    /\ cdPc = "in"
    /\ cdEmbed' = FolderSelectionEmbed(cdReq)
    /\ cdPc' = "card"
    /\ UNCHANGED <<cdReq, cdOut>>
    /\ UNCHANGED <<sizeVars, permVars, cacheVars, flowVars, resolveVars, adminVars>>

CdDecode ==
    /\ cdPc = "card"
    /\ cdOut' = extractRequestFromDMEmbed(cdEmbed)
    /\ cdPc' = "done"
    /\ UNCHANGED <<cdReq, cdEmbed>>
    /\ UNCHANGED <<sizeVars, permVars, cacheVars, flowVars, resolveVars, adminVars>>

-----------------------------------------------------------------------------
(* Folder Cache: GoogleDriveService                                        *)

Range(q) == { q[i] : i \in 1 .. Len(q) }

\* A JavaScript object or Map used as a dictionary: a function on its keys.
EmptyMap == <<>>

Put(m, k, v) == (k :> v) @@ m

\* path.split('/'): the texts between the separators (one empty text for an
\* empty input).
RECURSIVE SplitFrom(_, _, _)
SplitFrom(t, from, acc) ==
    IF from > Len(t) THEN <<acc>>
    ELSE IF t[from] = Slash THEN <<acc>> \o SplitFrom(t, from + 1, EmptyText)
    ELSE SplitFrom(t, from + 1, Append(acc, t[from]))

Split(t) == SplitFrom(t, 1, EmptyText)

\* `${parentPath}/${name}`, or the name alone under an empty path
JoinPath(parentPath, name) ==
    IF parentPath = EmptyText THEN name ELSE parentPath \o <<Slash>> \o name

\* rootFolderId || config.get('rootFolderId') || DEFAULT_DRIVE_FOLDER_ID || 'root'
CacheRootId == IF cfgRoot # "" THEN cfgRoot ELSE IF envRoot # "" THEN envRoot ELSE "root"

\* drive.files.list with q = "'parentId' in parents and mimeType = folder"
ListFolders(parentId) == SelectSeq(drive, LAMBDA f : parentId \in Range(f.parents))

\* drive.files.get(rootId) answers with a folder
IsDriveFolder(id) == \E i \in 1 .. Len(drive) : drive[i].id = id

\* First pass of buildFolderTree: folderMap, id -> {id, name, parentId}
RECURSIVE FolderMapOf(_, _)
FolderMapOf(folders, fmap) ==
    IF folders = <<>> THEN fmap
    ELSE LET f == Head(folders)
             obj == [ id |-> f.id, name |-> f.name,
                      parentId |-> IF f.parents = <<>> THEN "" ELSE f.parents[1] ]
         IN  FolderMapOf(Tail(folders), Put(fmap, f.id, obj))

\* calculatePath(folderId, visited): the value returned and the path fields
\* after the call.
RECURSIVE calculatePath(_, _, _, _, _)
calculatePath(folderId, visited, fmap, rootId, paths) ==
    IF folderId \in visited \/ folderId \notin DOMAIN fmap
    THEN [ret |-> EmptyText, paths |-> paths]
    ELSE LET folder == fmap[folderId]
         IN  IF \/ folder.parentId = rootId
                \/ folder.parentId = ""
                \/ folder.parentId \notin DOMAIN fmap
             THEN [ret |-> folder.name, paths |-> Put(paths, folderId, folder.name)]
             ELSE LET r == calculatePath(folder.parentId, visited \cup {folderId},
                                         fmap, rootId, paths)
                      path == IF r.ret # EmptyText
                              THEN r.ret \o <<Slash>> \o folder.name
                              ELSE folder.name
                  IN  [ret |-> path, paths |-> Put(r.paths, folderId, path)]

\* The element of a one-element set
Only(S) == CHOOSE x \in S : TRUE

\* folders.forEach(folder => calculatePath(folder.id)): each call ends
\* before the next one starts.
RECURSIVE PathsOf(_, _, _, _)
PathsOf(folders, fmap, rootId, paths) ==
    IF folders = <<>> THEN paths
    ELSE Only({ PathsOf(Tail(folders), fmap, rootId, after) :
                after \in { calculatePath(Head(folders).id, {}, fmap, rootId,
                                          paths).paths } })

\* Third pass: tree[name] = obj for a child of the root, and
\* parent.children[name] = obj for a folder whose first parent was scanned.
RECURSIVE TreeOf(_, _, _, _)
TreeOf(folders, fmap, rootId, tree) ==
    IF folders = <<>> THEN tree
    ELSE LET f == Head(folders)
             next ==
                 IF f.parents # <<>> /\ f.parents[1] # rootId
                 THEN IF f.parents[1] \in DOMAIN fmap
                      THEN [tree EXCEPT !.kids[f.parents[1]] = Put(@, f.name, f.id)]
                      ELSE tree
                 ELSE [tree EXCEPT !.top = Put(@, f.name, f.id)]
         IN  TreeOf(Tail(folders), fmap, rootId, next)

\* folderCache.flat.set(id, obj): a Map keeps a key's first position.
FlatSet(flat, obj) ==
    IF \E i \in 1 .. Len(flat) : flat[i].id = obj.id
    THEN [i \in 1 .. Len(flat) |-> IF flat[i].id = obj.id THEN obj ELSE flat[i]]
    ELSE Append(flat, obj)

RECURSIVE FlatOf(_, _, _, _)
FlatOf(folders, fmap, paths, flat) ==
    IF folders = <<>> THEN flat
    ELSE LET id == Head(folders).id
         IN  FlatOf(Tail(folders), fmap, paths,
                    FlatSet(flat, [ id |-> id, name |-> fmap[id].name,
                                    parentId |-> fmap[id].parentId,
                                    path |-> paths[id] ]))

EmptyTree == [top |-> EmptyMap, kids |-> EmptyMap]

\* buildFolderTree(folders, rootId): the tree it returns and the flat map it
\* leaves (it fills folderCache.flat as a side effect).
\* The three passes run one after the other: each is computed in full
\* before the next one starts.
buildFolderTree(folders, rootId, flat) ==
    Only({ Only({ [ tree |-> TreeOf(folders, fmap, rootId,
                                    [ top |-> EmptyMap,
                                      kids |-> [id \in DOMAIN fmap |-> EmptyMap] ]),
                    flat |-> FlatOf(folders, fmap, paths, flat) ] :
                  paths \in { PathsOf(folders, fmap, rootId,
                                      [id \in DOMAIN fmap |-> EmptyText]) } }) :
           fmap \in { FolderMapOf(folders, EmptyMap) } })

\* Order of a.label.localeCompare(b.label) on the folder names of the model
NameRank(name) ==
    CASE name = <<W("2024")>> -> 1
      [] name = <<W("art")>>  -> 2
      [] Len(name) = 1 /\ name[1].s = "folder" -> 2 + name[1].n
      [] name = <<W("Misc")>> -> 98
      [] OTHER                -> 99

RECURSIVE SortByLabel(_)
SortByLabel(opts) ==
    IF opts = {} THEN <<>>
    ELSE LET first == CHOOSE o \in opts :
                          \A x \in opts : NameRank(o.label) <= NameRank(x.label)
         IN  <<first>> \o SortByLabel(opts \ {first})

\* Discord's limit of options in a select menu
SelectMenuLimit == 25

\* The level of the tree at the end of the path parts; found is FALSE when
\* a part is not a key of the level reached.
RECURSIVE DescendTree(_, _, _)
DescendTree(tree, level, parts) ==
    IF parts = <<>> THEN [found |-> TRUE, level |-> level]
    ELSE IF Head(parts) \in DOMAIN level
         THEN DescendTree(tree, tree.kids[level[Head(parts)]], Tail(parts))
         ELSE [found |-> FALSE, level |-> EmptyMap]

\* getFoldersForSelectMenu without the slice(0, 25)
getFoldersForSelectMenuUnsliced(tree, parentPath) ==
    LET at == IF parentPath = EmptyText
              THEN [found |-> TRUE, level |-> tree.top]
              ELSE DescendTree(tree, tree.top, Split(parentPath))
    IN  IF ~at.found THEN <<>>
        ELSE SortByLabel({ [label |-> n, value |-> JoinPath(parentPath, n)] :
                              n \in DOMAIN at.level })

\* getFoldersForSelectMenu(parentPath) on a tree
getFoldersForSelectMenu(tree, parentPath) ==
    LET at == IF parentPath = EmptyText
              THEN [found |-> TRUE, level |-> tree.top]
              ELSE DescendTree(tree, tree.top, Split(parentPath))
    IN  IF ~at.found THEN <<>>
        ELSE LET opts == { [label |-> n, value |-> JoinPath(parentPath, n)] :
                              n \in DOMAIN at.level }
                 sorted == SortByLabel(opts)
             IN  SubSeq(sorted, 1, IF Len(sorted) < SelectMenuLimit
                                   THEN Len(sorted) ELSE SelectMenuLimit)

\* getCachedFolderIdByPath(folderPath) on a flat map: the id found, or
\* "fallback" when the path is in no entry and getFolderIdByPath is called.
getCachedFolderIdByPath(flat, folderPath) ==
    IF folderPath = EmptyText \/ folderPath = <<Slash>>
    THEN [kind |-> "root", id |-> CacheRootId]
    ELSE IF \E i \in 1 .. Len(flat) : flat[i].path = folderPath
         THEN [kind |-> "cached",
               id |-> flat[CHOOSE i \in 1 .. Len(flat) :
                             /\ flat[i].path = folderPath
                             /\ \A j \in 1 .. (i - 1) : flat[j].path # folderPath].id]
         ELSE [kind |-> "fallback", id |-> ""]

\* Backends tried: a root folder R holding art/2024 and Misc, one holding a
\* single folder, an empty one, and one with a parent cycle.
FolderRec(id, name, parents) == [id |-> id, name |-> name, parents |-> parents]

DriveFull ==
    << FolderRec("R", <<W("Shared")>>, <<"root">>),
       FolderRec("A", <<W("art")>>, <<"R">>),
       FolderRec("B", <<W("2024")>>, <<"A">>),
       FolderRec("C", <<W("Misc")>>, <<"R">>) >>

DriveSmall ==
    << FolderRec("R", <<W("Shared")>>, <<"root">>),
       FolderRec("A", <<W("art")>>, <<"R">>) >>

DriveEmpty == << FolderRec("R", <<W("Shared")>>, <<"root">>) >>

\* A parent cycle: art's first parent is 2024 and 2024's first parent is
\* art; both are also listed under R.
DriveCycle ==
    << FolderRec("R", <<W("Shared")>>, <<"root">>),
       FolderRec("A", <<W("art")>>, <<"B", "R">>),
       FolderRec("B", <<W("2024")>>, <<"A", "R">>) >>

\* A root with one folder more than a select menu shows: folder01 ..
\* folder26 under R, and one folder inside folder01.
Numbered(str, k) == [s |-> str, n |-> k]

DriveWide ==
    << FolderRec("R", <<W("Shared")>>, <<"root">>),
       FolderRec("F26", <<Numbered("folder", 26)>>, <<"R">>),
       FolderRec("F25", <<Numbered("folder", 25)>>, <<"R">>),
       FolderRec("F24", <<Numbered("folder", 24)>>, <<"R">>),
       FolderRec("F23", <<Numbered("folder", 23)>>, <<"R">>),
       FolderRec("F22", <<Numbered("folder", 22)>>, <<"R">>),
       FolderRec("F21", <<Numbered("folder", 21)>>, <<"R">>),
       FolderRec("F20", <<Numbered("folder", 20)>>, <<"R">>),
       FolderRec("F19", <<Numbered("folder", 19)>>, <<"R">>),
       FolderRec("F18", <<Numbered("folder", 18)>>, <<"R">>),
       FolderRec("F17", <<Numbered("folder", 17)>>, <<"R">>),
       FolderRec("F16", <<Numbered("folder", 16)>>, <<"R">>),
       FolderRec("F15", <<Numbered("folder", 15)>>, <<"R">>),
       FolderRec("F14", <<Numbered("folder", 14)>>, <<"R">>),
       FolderRec("F13", <<Numbered("folder", 13)>>, <<"R">>),
       FolderRec("F12", <<Numbered("folder", 12)>>, <<"R">>),
       FolderRec("F11", <<Numbered("folder", 11)>>, <<"R">>),
       FolderRec("F10", <<Numbered("folder", 10)>>, <<"R">>),
       FolderRec("F09", <<Numbered("folder", 9)>>, <<"R">>),
       FolderRec("F08", <<Numbered("folder", 8)>>, <<"R">>),
       FolderRec("F07", <<Numbered("folder", 7)>>, <<"R">>),
       FolderRec("F06", <<Numbered("folder", 6)>>, <<"R">>),
       FolderRec("F05", <<Numbered("folder", 5)>>, <<"R">>),
       FolderRec("F04", <<Numbered("folder", 4)>>, <<"R">>),
       FolderRec("F03", <<Numbered("folder", 3)>>, <<"R">>),
       FolderRec("F02", <<Numbered("folder", 2)>>, <<"R">>),
       FolderRec("F01", <<Numbered("folder", 1)>>, <<"R">>),
       FolderRec("G", <<W("art")>>, <<"F01">>) >>

\* A folder with two parents: art is listed under R, and its first parent
\* is a folder outside R.
DriveShared ==
    << FolderRec("R", <<W("Shared")>>, <<"root">>),
       FolderRec("Z", <<W("Misc")>>, <<"root">>),
       FolderRec("A", <<W("art")>>, <<"Z", "R">>),
       FolderRec("B", <<W("2024")>>, <<"A">>) >>

\* Two folders of the same name under one parent: the backend allows it.
DriveTwins ==
    << FolderRec("R", <<W("Shared")>>, <<"root">>),
       FolderRec("A", <<W("art")>>, <<"R">>),
       FolderRec("A2", <<W("art")>>, <<"R">>),
       FolderRec("B", <<W("2024")>>, <<"A2">>) >>

\* A folder whose name holds the path separator: the backend allows it.
DriveSlash ==
    << FolderRec("R", <<W("Shared")>>, <<"root">>),
       FolderRec("A", <<W("art")>>, <<"R">>),
       FolderRec("S", <<W("wip"), Slash, W("2024")>>, <<"A">>),
       FolderRec("C", <<W("Misc")>>, <<"R">>) >>

Drives == {DriveFull, DriveSmall, DriveEmpty, DriveCycle}

\* The callers of buildFolderCache that can overlap: the timer and the
\* refresh-folders command.
MaxRebuilders == 2
Rebuilders == 1 .. MaxRebuilders

\* buildFolderCache calls made in one run of the model
MaxRebuilds == 2

\* A caller of buildFolderCache: where its call stands, the locals of
\* getAllFolders, and how its last call ended ("built": the tree was
\* returned; "invalid_root": 'Invalid root folder' was thrown to it).
RbIdle == [pc |-> "idle", rootId |-> "", folders |-> <<>>, toProcess |-> <<>>,
           processed |-> {}, cur |-> "", outcome |-> "none"]

RbDone(outcome) == [RbIdle EXCEPT !.outcome = outcome]

NoRead == [kind |-> "none", path |-> EmptyText, rebuilding |-> FALSE]

CachePaths == { EmptyText, <<W("art")>>, <<W("art"), Slash, W("2024")>> }

CacheIdle ==
    /\ drive = <<>>
    /\ cfgRoot = ""
    /\ envRoot = ""
    /\ fcTree = EmptyTree
    /\ fcFlat = <<>>
    /\ fcPublished = [tree |-> EmptyTree, flat |-> <<>>]
    /\ rb = [i \in Rebuilders |-> RbIdle]
    /\ rbStarted = 0
    /\ rdObs = NoRead

\* After the constructor: an empty cache.
CacheInit ==
    /\ drive \in Drives
    /\ cfgRoot \in {"", "R", "gone"}
    /\ envRoot \in {"", "R"}
    /\ fcTree = EmptyTree
    /\ fcFlat = <<>>
    /\ fcPublished = [tree |-> EmptyTree, flat |-> <<>>]
    /\ rb = [i \in Rebuilders |-> RbIdle]
    /\ rbStarted = 0
    /\ rdObs = NoRead

\* getAllFolders' loop from the top of the while, without the check of
\* processedFolders: the head of the queue is listed whatever it is.
NextToListNoSkip(r) ==
    IF r.toProcess = <<>> THEN [r EXCEPT !.pc = "scanned", !.cur = ""]
    ELSE [r EXCEPT !.toProcess = Tail(@),
                   !.processed = @ \cup {Head(r.toProcess)},
                   !.cur = Head(r.toProcess),
                   !.pc = "list"]

\* getAllFolders' loop from the top of the while: parents already processed
\* are skipped; the next one is marked and its listing requested, or the
\* queue is empty and the traversal is over.
RECURSIVE NextToList(_)
NextToList(r) ==
    IF r.toProcess = <<>> THEN [r EXCEPT !.pc = "scanned", !.cur = ""]
    ELSE LET parentId == Head(r.toProcess)
         IN  IF parentId \in r.processed
             THEN NextToList([r EXCEPT !.toProcess = Tail(@)])
             ELSE [r EXCEPT !.toProcess = Tail(@),
                            !.processed = @ \cup {parentId},
                            !.cur = parentId,
                            !.pc = "list"]

\* buildFolderCache from 'Clear existing cache' to the first await inside
\* getAllFolders.
ClearAndScan(i, rootId) ==
    /\ fcTree' = EmptyTree
    /\ fcFlat' = <<>>
    /\ rb' = [rb EXCEPT ![i] =
                NextToList([RbIdle EXCEPT !.rootId = rootId, !.toProcess = <<rootId>>])]

\* buildFolderCache is called (timer, refresh-folders, start-up).  With the
\* root 'root' there is no validation and the cache is cleared at once.
RbStart(i) ==
    /\ rb[i].pc = "idle"
    /\ rbStarted < MaxRebuilds
    /\ rbStarted' = rbStarted + 1
    /\ IF CacheRootId = "root"
       THEN ClearAndScan(i, "root")
       ELSE /\ rb' = [rb EXCEPT ![i] = [RbIdle EXCEPT !.pc = "validate", !.rootId = CacheRootId]]
            /\ UNCHANGED <<fcTree, fcFlat>>
    /\ UNCHANGED <<drive, cfgRoot, envRoot, fcPublished, rdObs>>
    /\ UNCHANGED <<sizeVars, permVars, codecVars, flowVars, resolveVars, adminVars>>

\* The validation of the root with the cache cleared before it is known
\* to be a folder.
InvalidRootCleared(i) ==
    /\ rb' = [rb EXCEPT ![i] = RbDone("invalid_root")]
    /\ fcTree' = EmptyTree
    /\ fcFlat' = <<>>

\* The catch around drive.files.get: 'Invalid root folder' is thrown, the
\* outer catch rethrows it, and the lines that clear the cache are not reached.
InvalidRoot(i) ==
    /\ rb' = [rb EXCEPT ![i] = RbDone("invalid_root")]
    /\ UNCHANGED <<fcTree, fcFlat>>

\* drive.files.get(rootId) answered.  ok = FALSE is a request that failed
\* (the id is unknown, or the backend could not be reached); an answer that
\* is not a folder, like a failed request, throws 'Invalid root folder' and
\* the call ends.  Otherwise the cache is cleared and the traversal starts.
RbValidated(i) ==
    /\ rb[i].pc = "validate"
    /\ \E ok \in BOOLEAN :
         IF ok /\ IsDriveFolder(rb[i].rootId)
         THEN ClearAndScan(i, rb[i].rootId)
         ELSE InvalidRoot(i)
    /\ UNCHANGED <<drive, cfgRoot, envRoot, fcPublished, rbStarted, rdObs>>
    /\ UNCHANGED <<sizeVars, permVars, codecVars, flowVars, resolveVars, adminVars>>

\* getAllFolders after one drive.files.list: the folders found are added,
\* those not yet processed are queued, and the loop goes on.
Listed(r, childFolders) ==
    LET queued == SelectSeq(childFolders, LAMBDA f : f.id \notin r.processed)
    IN  NextToList([r EXCEPT
                      !.folders = @ \o childFolders,
                      !.toProcess = @ \o [k \in 1 .. Len(queued) |-> queued[k].id]])

\* One drive.files.list answered.  ok = FALSE is a failed query: the catch
\* block breaks out of the page loop and the parent's folders are skipped.
\* When the queue runs empty buildFolderTree runs and the cache is updated.
RbListed(i) ==
    /\ rb[i].pc = "list"
    /\ \E ok \in BOOLEAN :
         LET r2 == Listed(rb[i], IF ok THEN ListFolders(rb[i].cur) ELSE <<>>)
         IN  IF r2.pc = "scanned"
             THEN LET built == buildFolderTree(r2.folders, r2.rootId, fcFlat)
                  IN  /\ fcTree' = built.tree
                      /\ fcFlat' = built.flat
                      /\ fcPublished' = [tree |-> built.tree, flat |-> built.flat]
                      /\ rb' = [rb EXCEPT ![i] = RbDone("built")]
             ELSE /\ rb' = [rb EXCEPT ![i] = r2]
                  /\ UNCHANGED <<fcTree, fcFlat, fcPublished>>
    /\ UNCHANGED <<drive, cfgRoot, envRoot, rbStarted, rdObs>>
    /\ UNCHANGED <<sizeVars, permVars, codecVars, flowVars, resolveVars, adminVars>>

Rebuilding == \E i \in Rebuilders : rb[i].pc # "idle"

\* A reader calls getFoldersForSelectMenu(path).  The observation keeps what
\* the call returned and what it returns on the last published snapshot.
\* The paths the picker is asked for when the cache is read on its own:
\* paths that resolve in some snapshot and paths that resolve in none
MenuPaths ==
    { EmptyText, <<W("art")>>, <<W("art"), Slash, W("2024")>>, <<W("missing")>>,
      <<W("art"), Slash, W("missing")>>, <<W("Shared")>>,
      <<Numbered("folder", 1)>>, <<Numbered("folder", 1), Slash, W("art")>> }

\* A reader calls getFoldersForSelectMenu(path) on a cache nobody rebuilds.
ReadSelectMenuAt ==
    /\ \E path \in MenuPaths :
         rdObs' = [ kind |-> "menu", path |-> path, rebuilding |-> FALSE,
                    result |-> getFoldersForSelectMenu(fcTree, path),
                    onPublished |-> getFoldersForSelectMenu(fcPublished.tree, path) ]
    /\ UNCHANGED <<drive, cfgRoot, envRoot, fcTree, fcFlat, fcPublished, rb, rbStarted>>
    /\ UNCHANGED <<sizeVars, permVars, codecVars, flowVars, resolveVars, adminVars>>

\* A reader calls getCachedFolderIdByPath(path) on a cache nobody rebuilds.
ReadCachedIdAt ==
    /\ \E path \in MenuPaths :
         rdObs' = [ kind |-> "id", path |-> path, rebuilding |-> FALSE,
                    result |-> getCachedFolderIdByPath(fcFlat, path),
                    onPublished |-> getCachedFolderIdByPath(fcPublished.flat, path) ]
    /\ UNCHANGED <<drive, cfgRoot, envRoot, fcTree, fcFlat, fcPublished, rb, rbStarted>>
    /\ UNCHANGED <<sizeVars, permVars, codecVars, flowVars, resolveVars, adminVars>>

ReadSelectMenu ==
    /\ \E path \in CachePaths :
         rdObs' = [ kind |-> "menu", path |-> path, rebuilding |-> Rebuilding,
                    result |-> getFoldersForSelectMenu(fcTree, path),
                    onPublished |-> getFoldersForSelectMenu(fcPublished.tree, path) ]
    /\ UNCHANGED <<drive, cfgRoot, envRoot, fcTree, fcFlat, fcPublished, rb, rbStarted>>
    /\ UNCHANGED <<sizeVars, permVars, codecVars, flowVars, resolveVars, adminVars>>

\* A reader calls getCachedFolderIdByPath(path).
ReadCachedId ==
    /\ \E path \in CachePaths :
         rdObs' = [ kind |-> "id", path |-> path, rebuilding |-> Rebuilding,
                    result |-> getCachedFolderIdByPath(fcFlat, path),
                    onPublished |-> getCachedFolderIdByPath(fcPublished.flat, path) ]
    /\ UNCHANGED <<drive, cfgRoot, envRoot, fcTree, fcFlat, fcPublished, rb, rbStarted>>
    /\ UNCHANGED <<sizeVars, permVars, codecVars, flowVars, resolveVars, adminVars>>

-----------------------------------------------------------------------------
(* Permission gate: canTriggerUpload and the MessageReactionAdd handler    *)

Users == {"alice", "bob", "carol", "dave"}

\* member.permissions of each user in the guild
MemberPermissions(u) ==
    CASE u = "bob"  -> {"ManageMessages"}
      [] u = "dave" -> {"Administrator"}
      [] OTHER      -> {}

\* PermissionsBitField.has(flag): a member holding Administrator has every
\* permission.
PermissionsHas(perms, flag) == flag \in perms \/ "Administrator" \in perms

NoEvent == [kind |-> "none"]
NoCheck == [canUpload |-> FALSE, reason |-> "not_called"]

\* canTriggerUpload(user, message).  ev.author is message.author.id,
\* ev.hasGuild is message.guild, ev.lookupOk is whether guild.members.fetch
\* resolves (a rejection lands in the catch block).
canTriggerUploadOfficerOnly(ev, cfg) ==
    IF ~ev.hasGuild
    THEN [canUpload |-> FALSE, reason |-> "no_guild"]
    ELSE IF ev.lookupOk
              /\ cfg.officerPermission # ""
              /\ PermissionsHas(MemberPermissions(ev.user), cfg.officerPermission)
         THEN [canUpload |-> TRUE, reason |-> "officer_permission"]
         ELSE [canUpload |-> FALSE, reason |-> "no_permission"]

canTriggerUpload(ev, cfg) ==
    IF ev.user = ev.author
    THEN [canUpload |-> TRUE, reason |-> "original_author"]
    ELSE IF ~ev.hasGuild
         THEN [canUpload |-> FALSE, reason |-> "no_guild"]
         ELSE IF ev.lookupOk
                   /\ cfg.officerPermission # ""
                   /\ PermissionsHas(MemberPermissions(ev.user), cfg.officerPermission)
              THEN [canUpload |-> TRUE, reason |-> "officer_permission"]
              ELSE [canUpload |-> FALSE, reason |-> "no_permission"]

\* The reaction events the platform can deliver.  A message without a guild
\* is a direct message; its channel is "dm".
MaxAttachments == 2

ReactionEvents ==
    { ev \in [ kind : {"reaction"}, user : Users, bot : BOOLEAN,
               fetchOk : BOOLEAN, emoji : {"up", "heart"},
               channel : {"art", "general", "dm"}, author : {"alice", "bob"},
               hasGuild : BOOLEAN, lookupOk : BOOLEAN,
               attachments : 0 .. MaxAttachments ] :
        ev.hasGuild <=> ev.channel # "dm" }

\* What one run of the MessageReactionAdd handler does: the permission
\* check it made (NoCheck when it returned before making one), the number of
\* messages it sent to the reacting user and whether it stored a request.
HandleReaction(ev, cfg) ==
    IF ev.bot \/ ~ev.fetchOk \/ ev.emoji # cfg.uploadEmoji
    THEN [check |-> NoCheck, dms |-> 0, request |-> FALSE]
    ELSE IF ev.channel \notin cfg.uploadChannels
    THEN \* safeDM(user, 'Upload requests are only allowed in designated art channels.')
         [check |-> NoCheck, dms |-> 1, request |-> FALSE]
    ELSE LET check == canTriggerUpload(ev, cfg)
         IN  IF ~check.canUpload
             THEN [check |-> check, dms |-> 0, request |-> FALSE]
             ELSE IF ev.attachments = 0
             THEN \* safeDM(user, 'You can only upload messages that contain image attachments.')
                  [check |-> check, dms |-> 1, request |-> FALSE]
             ELSE IF ev.attachments = 1
             THEN \* uploadRequests.set(requestId, request); sendFolderSelectionMessage
                  [check |-> check, dms |-> 1, request |-> TRUE]
             ELSE \* sendAttachmentSelectionMessage
                  [check |-> check, dms |-> 1, request |-> FALSE]

PermConfigs ==
    [ uploadChannels : {{}, {"art"}, {"art", "dm"}},
      officerPermission : {"", "ManageMessages"},
      uploadEmoji : {"up"} ]

NoOut == [dms |-> 0, request |-> FALSE]

PermIdle ==
    /\ pmConfig = [uploadChannels |-> {}, officerPermission |-> "", uploadEmoji |-> "up"]
    /\ pmEvent = NoEvent
    /\ pmCheck = NoCheck
    /\ pmOut = NoOut
    /\ pmHandled = 0

PermInit ==
    /\ pmConfig \in PermConfigs
    /\ pmEvent = NoEvent
    /\ pmCheck = NoCheck
    /\ pmOut = NoOut
    /\ pmHandled = 0

\* Reaction events handled in one run of the model
MaxReactions == 2

\* client.on(Events.MessageReactionAdd, ...)
MessageReactionAdd ==
    /\ pmHandled < MaxReactions
    /\ \E ev \in ReactionEvents :
         LET out == HandleReaction(ev, pmConfig)
         IN  /\ pmEvent' = ev
             /\ pmCheck' = out.check
             /\ pmOut' = [dms |-> out.dms, request |-> out.request]
    /\ pmHandled' = pmHandled + 1
    /\ UNCHANGED pmConfig
    /\ UNCHANGED <<sizeVars, codecVars, cacheVars, flowVars, resolveVars, adminVars>>

-----------------------------------------------------------------------------
(* Request workflow: the interaction handlers                              *)

RootFolderMark    == W("*(root folder)*")
NoDescriptionMark == W("*(no description)*")
Space             == W(" ")

ReviewTitle    == "Upload Request for Approval"
ApprovedTitle  == "Upload Request APPROVED"
DeniedTitle    == "Upload Request DENIED"
FailedTitle    == "Upload Request FAILED"
SubmittedTitle == "Upload Request Submitted"
CancelledTitle == "Upload Cancelled"

\* title.includes(word) on the titles the bot writes
TitleIncludes(title, word) ==
    \/ word = "APPROVED" /\ title = ApprovedTitle
    \/ word = "DENIED" /\ title = DeniedTitle
    \/ word = "FAILED" /\ title = FailedTitle

\* The 'already processed' check of approve_ and deny_ in interactions.js,
\* without its DENIED term.
AlreadyProcessedNoDenied(title) ==
    TitleIncludes(title, "APPROVED") \/ TitleIncludes(title, "FAILED")

\* The 'already processed' check of approve_ and deny_ in interactions.js
AlreadyProcessed(title) ==
    \/ TitleIncludes(title, "APPROVED")
    \/ TitleIncludes(title, "DENIED")
    \/ TitleIncludes(title, "FAILED")

\* The 'already processed' check of the approve/deny handler of index.js
AlreadyProcessedLegacy(title) ==
    TitleIncludes(title, "APPROVED") \/ TitleIncludes(title, "DENIED")

\* The requester, and the id of the requester's state card
Requester == "alice"

NoReviewEmbed ==
    [ title |-> "", requestedBy |-> "", fileName |-> EmptyText, fileSize |-> NoText,
      uploadPath |-> EmptyText, originalFile |-> EmptyText,
      description |-> EmptyText, extras |-> <<>> ]

\* createApprovalEmbed(user, request, dmMessageId).  extras are the names of
\* the fields added after the six of the request.
createApprovalEmbed(userId, request) ==
    [ title |-> ReviewTitle,
      requestedBy |-> userId,
      fileName |-> request.fileName,
      fileSize |-> formatFileSize(request.fileSize \div 100),
      uploadPath |-> OrElse(request.currentPath, <<RootFolderMark>>),
      originalFile |-> request.attachmentUrl,
      description |-> OrElse(request.description, <<NoDescriptionMark>>),
      extras |-> <<>> ]

\* The embed dm_confirm_upload_ puts on the state card after the review
\* card is posted; the slots keep location, file name and description.
SubmittedEmbed(request) ==
    [FolderSelectionEmbed(request) EXCEPT !.title = SubmittedTitle]

\* The embed dm_cancel_ puts on the state card
CancelledEmbed == [NoEmbed EXCEPT !.title = CancelledTitle]

\* String.prototype.trim() on a text whose white space is Space tokens
RECURSIVE TrimLeft(_)
TrimLeft(t) == IF t # <<>> /\ Head(t) = Space THEN TrimLeft(Tail(t)) ELSE t

RECURSIVE TrimRight(_)
TrimRight(t) ==
    IF t # <<>> /\ t[Len(t)] = Space THEN TrimRight(SubSeq(t, 1, Len(t) - 1)) ELSE t

Trim(t) == TrimRight(TrimLeft(t))

\* Ids the backend gives to the folders it creates
FreshIds == <<"N1", "N2", "N3", "N4", "N5", "N6">>

FreshId(drv) ==
    LET used == Cardinality({ i \in 1 .. Len(drv) : drv[i].id \in Range(FreshIds) })
    IN  IF used < Len(FreshIds) THEN FreshIds[used + 1] ELSE "N+"

\* The loop of getFolderIdByPath: each part is searched by name under the
\* current parent (first hit wins) and created there when missing.
RECURSIVE FindOrCreate(_, _, _)
FindOrCreate(parts, currentParentId, drv) ==
    IF parts = <<>> THEN [id |-> currentParentId, drive |-> drv]
    ELSE LET folderName == Head(parts)
             files == SelectSeq(drv, LAMBDA f :
                         f.name = folderName /\ currentParentId \in Range(f.parents))
         IN  IF files # <<>>
             THEN FindOrCreate(Tail(parts), files[1].id, drv)
             ELSE LET id == FreshId(drv)
                  IN  FindOrCreate(Tail(parts), id,
                         Append(drv, [id |-> id, name |-> folderName,
                                      parents |-> <<currentParentId>>]))

\* parentId || process.env.DEFAULT_DRIVE_FOLDER_ID || 'root'
PathRootId(parentId) ==
    IF parentId # "" THEN parentId ELSE IF envRoot # "" THEN envRoot ELSE "root"

\* The loop of getFolderIdByPath without its search: every part is created.
RECURSIVE CreateAll(_, _, _)
CreateAll(parts, currentParentId, drv) ==
    IF parts = <<>> THEN [id |-> currentParentId, drive |-> drv]
    ELSE LET id == FreshId(drv)
         IN  CreateAll(Tail(parts), id,
                Append(drv, [id |-> id, name |-> Head(parts),
                             parents |-> <<currentParentId>>]))

getFolderIdByPathNoSearch(folderPath, parentId, drv) ==
    IF folderPath = EmptyText \/ folderPath = <<Slash>>
    THEN [id |-> PathRootId(parentId), drive |-> drv]
    ELSE CreateAll(SelectSeq(Split(folderPath), LAMBDA part : Len(part) > 0),
                   PathRootId(parentId), drv)

\* getFolderIdByPath(folderPath, parentId) on backend drv: the id returned
\* and the backend afterwards.
getFolderIdByPath(folderPath, parentId, drv) ==
    IF folderPath = EmptyText \/ folderPath = <<Slash>>
    THEN [id |-> PathRootId(parentId), drive |-> drv]
    ELSE FindOrCreate(SelectSeq(Split(folderPath), LAMBDA part : Len(part) > 0),
                      PathRootId(parentId), drv)

\* getAllFolders(rootId) with every query answered, on the backend as it is
RECURSIVE ScanFrom(_)
ScanFrom(r) ==
    IF r.pc = "scanned" THEN r.folders ELSE ScanFrom(Listed(r, ListFolders(r.cur)))

getAllFolders(rootId) ==
    ScanFrom(NextToList([RbIdle EXCEPT !.rootId = rootId, !.toProcess = <<rootId>>]))

NoForm == [fileName |-> EmptyText, path |-> EmptyText, description |-> EmptyText]

NoTask == [kind |-> "none", pc |-> "none", card |-> 0, snap |-> NoReviewEmbed,
           req |-> NoRequest, form |-> NoForm, reply |-> "none", error |-> "none",
           cleanup |-> "none"]

\* Interactions delivered in one run of the model
MaxInteractions == 2
TaskIds == 1 .. MaxInteractions

\* The handler of the next interaction delivered
NewTask == delivered + 1

Deliver(task) ==
    /\ delivered < MaxInteractions
    /\ delivered' = delivered + 1
    /\ tasks' = [tasks EXCEPT ![NewTask] = task]

Finish(t, reply) == tasks' = [tasks EXCEPT ![t].pc = "done", ![t].reply = reply]

Goto(t, pc) == tasks' = [tasks EXCEPT ![t].pc = pc]

\* An error is thrown to the handler's catch block; error is its message.
Throw(t, pc, error) == tasks' = [tasks EXCEPT ![t].pc = pc, ![t].error = error]

\* cache.get(undefined), or the id of a channel the client does not hold
NoChannel == ""

\* The channel the upload emoji was put in
SourceChannel == "art"

\* DEFAULT_CONFIG's approvalMappings and defaultApprovalChannelId
NoApprovalConfig == [approvalMappings |-> EmptyMap, defaultApprovalChannelId |-> ""]

\* Configurations tried: nothing set, a default only (the channel of the
\* environment or another one), a mapping of the source channel.
ApprovalConfigs ==
    { NoApprovalConfig,
      [NoApprovalConfig EXCEPT !.defaultApprovalChannelId = "officers"],
      [NoApprovalConfig EXCEPT !.defaultApprovalChannelId = "mods"],
      [ approvalMappings |-> Put(EmptyMap, SourceChannel, "art-review"),
        defaultApprovalChannelId |-> "officers" ] }

\* config.getApprovalChannelFor(uploadChannelId)
getApprovalChannelFor(cfg, uploadChannelId) ==
    IF /\ uploadChannelId \in DOMAIN cfg.approvalMappings
       /\ cfg.approvalMappings[uploadChannelId] # ""
    THEN cfg.approvalMappings[uploadChannelId]
    ELSE cfg.defaultApprovalChannelId

\* The attachment the reaction handler reads: attachment.url,
\* attachment.name and attachment.size (bytes)
NoAttachment == [url |-> EmptyText, name |-> EmptyText, size |-> 0]

AttachmentOf(request) ==
    [ url |-> request.attachmentUrl, name |-> request.originalFileName,
      size |-> request.fileSize \div 100 ]

\* The message sendFolderSelectionMessage builds for a request: the embed,
\* the select menu with the folders the picker lists for the path, and the
\* button row, with Back when the path is not empty.
StateCard(request) ==
    [ exists |-> TRUE, embed |-> FolderSelectionEmbed(request), components |-> TRUE,
      options |-> getFoldersForSelectMenu(fcTree, request.currentPath),
      back |-> request.currentPath # EmptyText ]

FlowIdle ==
    /\ build = "none"
    /\ dmCard = [exists |-> FALSE, embed |-> NoEmbed, components |-> FALSE,
                 options |-> <<>>, back |-> FALSE]
    /\ uploadRequests = NoRequest
    /\ approvalChannel = NoChannel
    /\ approvalConfig = NoApprovalConfig
    /\ reviewCards = <<>>
    /\ tasks = [t \in TaskIds |-> NoTask]
    /\ delivered = 0
    /\ modalOpen = FALSE
    /\ detailsOpen = FALSE
    /\ usersCache = TRUE
    /\ attachment = NoAttachment
    /\ uploads = <<>>
    /\ notices = <<>>

\* ---- the requester's side: dm_confirm_upload_ and dm_cancel_

\* The confirm handler without the check of the approval channel: the review
\* card is sent whatever cache.get returned.
ConfirmDeliverNoCheck ==
    /\ dmCard.exists
    /\ LET request == extractRequestFromDMEmbed(dmCard.embed)
           task == [NoTask EXCEPT !.kind = "confirm", !.req = request]
       IN  IF ~request.found
           THEN /\ Deliver([task EXCEPT !.pc = "done", !.reply = "expired"])
                /\ UNCHANGED uploadRequests
           ELSE /\ uploadRequests' = request
                /\ Deliver([task EXCEPT !.pc = "send"])
    /\ UNCHANGED <<build, dmCard, approvalChannel, approvalConfig, reviewCards,
                   modalOpen, detailsOpen, usersCache, attachment, uploads, notices>>
    /\ UNCHANGED <<sizeVars, permVars, codecVars, cacheVars, resolveVars, adminVars>>

\* The confirm button is pressed: the request is decoded from the card the
\* interaction carries and stored; without an approval channel the handler
\* replies and returns, otherwise it sends the review card.
ConfirmDeliver ==
    /\ dmCard.exists
    /\ LET request == extractRequestFromDMEmbed(dmCard.embed)
           task == [NoTask EXCEPT !.kind = "confirm", !.req = request]
       IN  IF ~request.found
           THEN /\ Deliver([task EXCEPT !.pc = "done", !.reply = "expired"])
                /\ UNCHANGED uploadRequests
           ELSE /\ uploadRequests' = request
                /\ IF approvalChannel = NoChannel
                   THEN Deliver([task EXCEPT !.pc = "done", !.reply = "not_configured"])
                   ELSE Deliver([task EXCEPT !.pc = "send"])
    /\ UNCHANGED <<build, dmCard, approvalChannel, approvalConfig, reviewCards, modalOpen, detailsOpen, usersCache, attachment, uploads, notices>>
    /\ UNCHANGED <<sizeVars, permVars, codecVars, cacheVars, resolveVars, adminVars>>

\* approvalChannel.send answered: the review card is in the channel, or the
\* send failed and the handler replies with the error.
ConfirmSend(t) ==
    /\ tasks[t].kind = "confirm" /\ tasks[t].pc = "send"
    /\ \E ok \in BOOLEAN :
         IF ok
         THEN /\ reviewCards' = Append(reviewCards,
                    [ embed |-> createApprovalEmbed(Requester, tasks[t].req),
                      components |-> TRUE ])
              /\ Goto(t, "mark")
         ELSE /\ Finish(t, "error")
              /\ UNCHANGED reviewCards
    /\ UNCHANGED <<build, dmCard, uploadRequests, approvalChannel, approvalConfig, delivered,
                   modalOpen, detailsOpen, usersCache, attachment, uploads, notices>>
    /\ UNCHANGED <<sizeVars, permVars, codecVars, cacheVars, resolveVars, adminVars>>

\* The state card is fetched and edited to 'Submitted' without buttons; a
\* failure of the fetch or the edit is logged only.  Then the reply.
ConfirmMark(t) ==
    /\ tasks[t].kind = "confirm" /\ tasks[t].pc = "mark"
    /\ \E ok \in BOOLEAN :
         IF ok /\ dmCard.exists
         THEN dmCard' = [dmCard EXCEPT !.embed = SubmittedEmbed(tasks[t].req),
                                       !.components = FALSE,
                                       !.options = <<>>, !.back = FALSE]
         ELSE UNCHANGED dmCard
    /\ Finish(t, "submitted")
    /\ UNCHANGED <<build, uploadRequests, approvalChannel, approvalConfig, reviewCards, delivered,
                   modalOpen, detailsOpen, usersCache, attachment, uploads, notices>>
    /\ UNCHANGED <<sizeVars, permVars, codecVars, cacheVars, resolveVars, adminVars>>

\* The cancel button is pressed: the Map entry is deleted.
CancelDeliver ==
    /\ dmCard.exists
    /\ uploadRequests' = NoRequest
    /\ Deliver([NoTask EXCEPT !.kind = "cancel", !.pc = "update"])
    /\ UNCHANGED <<build, dmCard, approvalChannel, approvalConfig, reviewCards, modalOpen, detailsOpen, usersCache, attachment, uploads, notices>>
    /\ UNCHANGED <<sizeVars, permVars, codecVars, cacheVars, resolveVars, adminVars>>

\* interaction.update: the card shows 'Upload Cancelled' without buttons.
CancelUpdate(t) ==
    /\ tasks[t].kind = "cancel" /\ tasks[t].pc = "update"
    /\ dmCard' = [dmCard EXCEPT !.embed = CancelledEmbed, !.components = FALSE,
                                 !.options = <<>>, !.back = FALSE]
    /\ Finish(t, "cancelled")
    /\ UNCHANGED <<build, uploadRequests, approvalChannel, approvalConfig, reviewCards, delivered,
                   modalOpen, detailsOpen, usersCache, attachment, uploads, notices>>
    /\ UNCHANGED <<sizeVars, permVars, codecVars, cacheVars, resolveVars, adminVars>>

\* ---- the requester's edit-details form: dm_edit_details_, dm_details_modal_

\* The edit-details button is pressed on a card that decodes: the request
\* decoded is stored and the form is shown.
EditDetails ==
    /\ dmCard.exists
    /\ ~detailsOpen
    /\ extractRequestFromDMEmbed(dmCard.embed).found
    /\ uploadRequests' = extractRequestFromDMEmbed(dmCard.embed)
    /\ detailsOpen' = TRUE
    /\ UNCHANGED <<build, dmCard, approvalChannel, approvalConfig, reviewCards, tasks,
                   delivered, modalOpen, usersCache, attachment, uploads, notices>>
    /\ UNCHANGED <<sizeVars, permVars, codecVars, cacheVars, resolveVars, adminVars>>

\* What the requester types into the form
DetailsForms ==
    { [NoForm EXCEPT !.fileName = <<W("final.png")>>, !.description = <<W("a sketch")>>],
      [NoForm EXCEPT !.fileName = <<W("art.png")>>] }

\* The form is submitted: the handler looks the request up in the Map;
\* without an entry it replies 'expired', otherwise it writes file name and
\* description into the entry and defers its update.
DetailsModalDeliver ==
    /\ detailsOpen
    /\ detailsOpen' = FALSE
    /\ LET task == [NoTask EXCEPT !.kind = "details", !.snap = dmCard.embed]
       IN  IF ~uploadRequests.found
           THEN /\ Deliver([task EXCEPT !.pc = "done", !.reply = "expired"])
                /\ UNCHANGED uploadRequests
           ELSE \E form \in DetailsForms :
                   /\ uploadRequests' = [uploadRequests EXCEPT
                                            !.fileName = form.fileName,
                                            !.description = form.description]
                   /\ Deliver([task EXCEPT !.pc = "render", !.form = form])
    /\ UNCHANGED <<build, dmCard, approvalChannel, approvalConfig, reviewCards,
                   modalOpen, usersCache, attachment, uploads, notices>>
    /\ UNCHANGED <<sizeVars, permVars, codecVars, cacheVars, resolveVars, adminVars>>

\* sendFolderSelectionMessage(user, requestId, interaction) after the
\* deferred update: the Map is read again and, with an entry, the message of
\* the interaction is edited into the card of that entry: the embed, the
\* select menu when the picker lists folders for the path, the Back button
\* when the path is not empty, and the other buttons.
RenderStateCard(t) ==
    IF ~uploadRequests.found
    THEN /\ Finish(t, "deferred")
         /\ UNCHANGED dmCard
    ELSE IF dmCard.exists
         THEN /\ dmCard' = StateCard(uploadRequests)
              /\ Finish(t, "rendered")
         ELSE /\ Finish(t, "error")
              /\ UNCHANGED dmCard

DetailsRender(t) ==
    /\ tasks[t].kind = "details" /\ tasks[t].pc = "render"
    /\ RenderStateCard(t)
    /\ UNCHANGED <<build, uploadRequests, approvalChannel, approvalConfig, reviewCards,
                   delivered, modalOpen, detailsOpen, usersCache, attachment, uploads, notices>>
    /\ UNCHANGED <<sizeVars, permVars, codecVars, cacheVars, resolveVars, adminVars>>

\* ---- navigation on the state card: dm_folder_select_, dm_folder_back_

\* An option of the select menu is chosen: the request is decoded from the
\* card, its path becomes the value of the option, and it is stored.
FolderSelectDeliver ==
    /\ dmCard.exists /\ dmCard.components
    /\ \E k \in 1 .. Len(dmCard.options) :
         LET request == extractRequestFromDMEmbed(dmCard.embed)
             value == dmCard.options[k].value
             task == [NoTask EXCEPT !.kind = "select", !.snap = dmCard.embed,
                                    !.form = [NoForm EXCEPT !.path = value]]
         IN  IF ~request.found
             THEN /\ Deliver([task EXCEPT !.pc = "done", !.reply = "expired"])
                  /\ UNCHANGED uploadRequests
             ELSE /\ uploadRequests' = [request EXCEPT !.currentPath = value]
                  /\ Deliver([task EXCEPT !.pc = "render",
                                          !.req = [request EXCEPT !.currentPath = value]])
    /\ UNCHANGED <<build, dmCard, approvalChannel, approvalConfig, reviewCards,
                   modalOpen, detailsOpen, usersCache, attachment, uploads, notices>>
    /\ UNCHANGED <<sizeVars, permVars, codecVars, cacheVars, resolveVars, adminVars>>

\* pathParts.join('/')
RECURSIVE JoinParts(_)
JoinParts(parts) ==
    IF parts = <<>> THEN EmptyText
    ELSE IF Len(parts) = 1 THEN parts[1]
    ELSE parts[1] \o <<Slash>> \o JoinParts(Tail(parts))

\* currentPath.split('/'), pop(), join('/')
PopPath(currentPath) ==
    LET pathParts == Split(currentPath)
    IN  JoinParts(SubSeq(pathParts, 1, Len(pathParts) - 1))

\* The Back button is pressed: the request is decoded from the card, the
\* last segment of its path is dropped, and it is stored.
FolderBackDeliver ==
    /\ dmCard.exists /\ dmCard.components /\ dmCard.back
    /\ LET request == extractRequestFromDMEmbed(dmCard.embed)
           task == [NoTask EXCEPT !.kind = "back", !.snap = dmCard.embed]
       IN  IF ~request.found
           THEN /\ Deliver([task EXCEPT !.pc = "done", !.reply = "expired"])
                /\ UNCHANGED uploadRequests
           ELSE LET popped == [request EXCEPT !.currentPath = PopPath(@)]
                IN  /\ uploadRequests' = popped
                    /\ Deliver([task EXCEPT !.pc = "render", !.req = popped])
    /\ UNCHANGED <<build, dmCard, approvalChannel, approvalConfig, reviewCards,
                   modalOpen, detailsOpen, usersCache, attachment, uploads, notices>>
    /\ UNCHANGED <<sizeVars, permVars, codecVars, cacheVars, resolveVars, adminVars>>

\* Either navigation handler after its deferred update
FolderRender(t) ==
    /\ tasks[t].kind \in {"select", "back"} /\ tasks[t].pc = "render"
    /\ RenderStateCard(t)
    /\ UNCHANGED <<build, uploadRequests, approvalChannel, approvalConfig, reviewCards,
                   delivered, modalOpen, detailsOpen, usersCache, attachment, uploads, notices>>
    /\ UNCHANGED <<sizeVars, permVars, codecVars, cacheVars, resolveVars, adminVars>>

\* ---- the reviewers' side: approve_, deny_, officer_edit_, edit_modal_

Processed(title) ==
    IF build = "legacy" THEN AlreadyProcessedLegacy(title) ELSE AlreadyProcessed(title)

\* getFieldValue('Upload Path')?.replace('*(root folder)*', '') || ''
UploadPathOf(embed) == OrElse(ReplaceFirst(embed.uploadPath, RootFolderMark), EmptyText)

\* getFieldValue('Description')?.replace('*(no description)*', '') || ''
DescriptionOf(embed) ==
    OrElse(ReplaceFirst(embed.description, NoDescriptionMark), EmptyText)

\* An approve button is pressed on review card c.  The handler works on the
\* embed the interaction carries: the card as it was when the button was
\* pressed.
ApproveDeliver(c) ==
    /\ c \in 1 .. Len(reviewCards)
    /\ LET embed == reviewCards[c].embed
           task == [NoTask EXCEPT !.kind = "approve", !.card = c, !.snap = embed]
       IN  IF Processed(embed.title)
           THEN Deliver([task EXCEPT !.pc = "done", !.reply = "already_processed"])
           ELSE IF \/ embed.requestedBy = ""
                   \/ embed.fileName = EmptyText
                   \/ embed.originalFile = EmptyText
                THEN Deliver([task EXCEPT !.pc = "done", !.reply = "missing"])
                ELSE Deliver([task EXCEPT !.pc = "transfer"])
    /\ UNCHANGED <<build, dmCard, uploadRequests, approvalChannel, approvalConfig, reviewCards,
                   modalOpen, detailsOpen, usersCache, attachment, uploads, notices>>
    /\ UNCHANGED <<sizeVars, permVars, codecVars, cacheVars, resolveVars, adminVars>>

\* The file created by uploadFile
Upload(t, folderId, uploadPath) ==
    [ task |-> t, fileName |-> tasks[t].snap.fileName, folderId |-> folderId,
      path |-> uploadPath, description |-> DescriptionOf(tasks[t].snap) ]

\* interactions.js: driveService.uploadFromUrl(url, fileName, uploadPath,
\* description).  The download can fail; getFolderIdByPath finds or creates
\* the folder; uploadFile can fail.  Any failure is thrown to the handler.
TransferModular(t) ==
    LET uploadPath == UploadPathOf(tasks[t].snap)
        folder == getFolderIdByPath(uploadPath, "", drive)
    IN  \E downloaded \in BOOLEAN, uploaded \in BOOLEAN :
          IF ~downloaded
          THEN /\ Throw(t, "failed", "download")
               /\ UNCHANGED <<drive, uploads>>
          ELSE /\ drive' = folder.drive
               /\ IF uploaded
                  THEN /\ uploads' = Append(uploads, Upload(t, folder.id, uploadPath))
                       /\ Goto(t, "mark")
                  ELSE /\ Throw(t, "failed", "upload")
                       /\ UNCHANGED uploads

\* index.js: downloadFile, then getCachedFolderIdByPath (not awaited), then
\* uploadFile.  On a path the cache does not hold, getCachedFolderIdByPath
\* returns the promise of getFolderIdByPath: the folders are found or
\* created, and uploadFile is handed the promise as the parent, which the
\* backend refuses.
TransferLegacy(t) ==
    LET uploadPath == UploadPathOf(tasks[t].snap)
        cached == getCachedFolderIdByPath(fcFlat, uploadPath)
    IN  \E downloaded \in BOOLEAN, uploaded \in BOOLEAN :
          IF ~downloaded
          THEN /\ Throw(t, "failed", "download")
               /\ UNCHANGED <<drive, uploads>>
          ELSE IF cached.kind = "fallback"
               THEN /\ drive' = getFolderIdByPath(uploadPath, "", drive).drive
                    /\ Throw(t, "failed", "invalid_parent")
                    /\ UNCHANGED uploads
               ELSE /\ UNCHANGED drive
                    /\ IF uploaded
                       THEN /\ uploads' = Append(uploads, Upload(t, cached.id, uploadPath))
                            /\ Goto(t, "mark")
                       ELSE /\ Throw(t, "failed", "upload")
                            /\ UNCHANGED uploads

ApproveTransfer(t) ==
    /\ tasks[t].kind = "approve" /\ tasks[t].pc = "transfer"
    /\ IF build = "legacy" THEN TransferLegacy(t) ELSE TransferModular(t)
    /\ UNCHANGED <<build, dmCard, uploadRequests, approvalChannel, approvalConfig, reviewCards,
                   delivered, modalOpen, detailsOpen, usersCache, attachment, notices>>
    /\ UNCHANGED <<cfgRoot, envRoot, fcTree, fcFlat, fcPublished, rb, rbStarted, rdObs>>
    /\ UNCHANGED <<sizeVars, permVars, codecVars, resolveVars, adminVars>>

\* EmbedBuilder.from(embed).setTitle(title).addFields(extra), written with
\* components: []
Rewritten(embed, title, extra) ==
    [ embed |-> [embed EXCEPT !.title = title, !.extras = Append(@, extra)],
      components |-> FALSE ]

\* interaction.message.edit: the card becomes APPROVED.
ApproveMark(t) ==
    /\ tasks[t].kind = "approve" /\ tasks[t].pc = "mark"
    /\ reviewCards' = [reviewCards EXCEPT ![tasks[t].card] =
                          Rewritten(tasks[t].snap, ApprovedTitle, "Approved by")]
    /\ Goto(t, "notify")
    /\ UNCHANGED <<build, dmCard, uploadRequests, approvalChannel, approvalConfig, delivered,
                   modalOpen, detailsOpen, usersCache, attachment, uploads, notices>>
    /\ UNCHANGED <<sizeVars, permVars, codecVars, cacheVars, resolveVars, adminVars>>

\* deleteOriginalDM(client, userId, dmMessageId, status): nothing is tried
\* when the user is not in client.users.cache, and a failure of createDM,
\* messages.fetch or delete is logged and swallowed.
Cleanup(cached, deletes) ==
    IF ~cached THEN "skipped"
    ELSE IF deletes /\ dmCard.exists THEN "deleted" ELSE "failed"

DeleteOriginalDM(cached, deletes) ==
    IF Cleanup(cached, deletes) = "deleted"
    THEN dmCard' = [dmCard EXCEPT !.exists = FALSE]
    ELSE UNCHANGED dmCard

Notice(t, kind) == [task |-> t, kind |-> kind, fileName |-> tasks[t].snap.fileName]

FinishCleaned(t, reply, cleanup) ==
    tasks' = [tasks EXCEPT ![t].pc = "done", ![t].reply = reply,
                           ![t].cleanup = cleanup]

ThrowCleaned(t, pc, error, cleanup) ==
    tasks' = [tasks EXCEPT ![t].pc = pc, ![t].error = error,
                           ![t].cleanup = cleanup]

\* After the card is marked.  interactions.js: client.users.fetch (a throw
\* goes to the catch block; a success puts the user in the cache), safeDM,
\* editReply (a throw goes to the catch block), deleteOriginalDM.  index.js:
\* deleteOriginalDM, safeDM when the user is in client.users.cache,
\* editReply.  delivers = FALSE is a direct message the platform refuses,
\* replied = FALSE an editReply it refuses (index.js's deny has no catch
\* block: the handler ends there), deletes = FALSE a deletion it refuses.
NotifyRequester(t, kind, onThrow) ==
    \E fetched \in BOOLEAN, deletes \in BOOLEAN, delivers \in BOOLEAN,
       replied \in BOOLEAN :
       IF build = "legacy"
       THEN /\ DeleteOriginalDM(usersCache, deletes)
            /\ notices' = IF usersCache /\ delivers
                          THEN Append(notices, Notice(t, kind)) ELSE notices
            /\ IF replied \/ kind = "denied"
               THEN FinishCleaned(t, kind, Cleanup(usersCache, deletes))
               ELSE ThrowCleaned(t, onThrow, "reply", Cleanup(usersCache, deletes))
            /\ UNCHANGED usersCache
       ELSE IF ~fetched
            THEN /\ Throw(t, onThrow, "fetch")
                 /\ UNCHANGED <<dmCard, notices, usersCache>>
            ELSE /\ usersCache' = TRUE
                 /\ notices' = IF delivers
                               THEN Append(notices, Notice(t, kind)) ELSE notices
                 /\ IF replied
                    THEN /\ DeleteOriginalDM(TRUE, deletes)
                         /\ FinishCleaned(t, kind, Cleanup(TRUE, deletes))
                    ELSE /\ Throw(t, onThrow, "reply")
                         /\ UNCHANGED dmCard

ApproveNotify(t) ==
    /\ tasks[t].kind = "approve" /\ tasks[t].pc = "notify"
    /\ NotifyRequester(t, "approved", "failed")
    /\ UNCHANGED <<build, uploadRequests, approvalChannel, approvalConfig, reviewCards, delivered,
                   modalOpen, detailsOpen, attachment, uploads>>
    /\ UNCHANGED <<sizeVars, permVars, codecVars, cacheVars, resolveVars, adminVars>>

\* The catch block of approve: the card becomes FAILED with the error.
ApproveFail(t) ==
    /\ tasks[t].kind = "approve" /\ tasks[t].pc = "failed"
    /\ reviewCards' = [reviewCards EXCEPT ![tasks[t].card] =
                          Rewritten(tasks[t].snap, FailedTitle, "Error")]
    /\ Finish(t, "failed")
    /\ UNCHANGED <<build, dmCard, uploadRequests, approvalChannel, approvalConfig, delivered,
                   modalOpen, detailsOpen, usersCache, attachment, uploads, notices>>
    /\ UNCHANGED <<sizeVars, permVars, codecVars, cacheVars, resolveVars, adminVars>>

\* A deny button is pressed on review card c.
DenyDeliver(c) ==
    /\ c \in 1 .. Len(reviewCards)
    /\ LET embed == reviewCards[c].embed
           task == [NoTask EXCEPT !.kind = "deny", !.card = c, !.snap = embed]
       IN  IF Processed(embed.title)
           THEN Deliver([task EXCEPT !.pc = "done", !.reply = "already_processed"])
           ELSE IF \/ embed.requestedBy = ""
                   \/ embed.fileName = EmptyText
                   \/ build = "legacy" /\ embed.originalFile = EmptyText
                THEN Deliver([task EXCEPT !.pc = "done", !.reply = "missing"])
                ELSE Deliver([task EXCEPT !.pc = "mark"])
    /\ UNCHANGED <<build, dmCard, uploadRequests, approvalChannel, approvalConfig, reviewCards,
                   modalOpen, detailsOpen, usersCache, attachment, uploads, notices>>
    /\ UNCHANGED <<sizeVars, permVars, codecVars, cacheVars, resolveVars, adminVars>>

\* interaction.message.edit: the card becomes DENIED.
DenyMark(t) ==
    /\ tasks[t].kind = "deny" /\ tasks[t].pc = "mark"
    /\ reviewCards' = [reviewCards EXCEPT ![tasks[t].card] =
                          Rewritten(tasks[t].snap, DeniedTitle, "Denied by")]
    /\ Goto(t, "notify")
    /\ UNCHANGED <<build, dmCard, uploadRequests, approvalChannel, approvalConfig, delivered,
                   modalOpen, detailsOpen, usersCache, attachment, uploads, notices>>
    /\ UNCHANGED <<sizeVars, permVars, codecVars, cacheVars, resolveVars, adminVars>>

\* The catch block of deny only edits the reply.
DenyNotify(t) ==
    /\ tasks[t].kind = "deny" /\ tasks[t].pc = "notify"
    /\ NotifyRequester(t, "denied", "error")
    /\ UNCHANGED <<build, uploadRequests, approvalChannel, approvalConfig, reviewCards, delivered,
                   modalOpen, detailsOpen, attachment, uploads>>
    /\ UNCHANGED <<sizeVars, permVars, codecVars, cacheVars, resolveVars, adminVars>>

DenyError(t) ==
    /\ tasks[t].kind = "deny" /\ tasks[t].pc = "error"
    /\ Finish(t, "error")
    /\ UNCHANGED <<build, dmCard, uploadRequests, approvalChannel, approvalConfig, reviewCards,
                   delivered, modalOpen, detailsOpen, usersCache, attachment, uploads, notices>>
    /\ UNCHANGED <<sizeVars, permVars, codecVars, cacheVars, resolveVars, adminVars>>

\* The edit button is pressed on review card c: the form opens, filled
\* from the card, unless the card has no file name.
OfficerEdit(c) ==
    /\ build = "modular"
    /\ c \in 1 .. Len(reviewCards)
    /\ reviewCards[c].embed.fileName # EmptyText
    /\ ~modalOpen
    /\ modalOpen' = TRUE
    /\ UNCHANGED <<build, dmCard, uploadRequests, approvalChannel, approvalConfig, reviewCards,
                   tasks, delivered, detailsOpen, usersCache, attachment, uploads, notices>>
    /\ UNCHANGED <<sizeVars, permVars, codecVars, cacheVars, resolveVars, adminVars>>

\* What an officer types into the form
EditForms ==
    { [ fileName |-> <<W("final.png")>>, path |-> <<W("art")>>,
        description |-> <<W("by alice"), Space>> ],
      [ fileName |-> <<W("art.png")>>, path |-> EmptyText,
        description |-> EmptyText ] }

\* The form is submitted: the handler reads requester, size and link from
\* the embed the interaction carries and defers its reply.
EditModalDeliver(c) ==
    /\ modalOpen
    /\ c \in 1 .. Len(reviewCards)
    /\ modalOpen' = FALSE
    /\ LET embed == reviewCards[c].embed
           task == [NoTask EXCEPT !.kind = "edit", !.card = c, !.snap = embed]
       IN  IF embed.requestedBy = "" \/ embed.originalFile = EmptyText
           THEN Deliver([task EXCEPT !.pc = "done", !.reply = "missing"])
           ELSE \E form \in EditForms :
                   Deliver([task EXCEPT !.pc = "write", !.form = form])
    /\ UNCHANGED <<build, dmCard, uploadRequests, approvalChannel, approvalConfig, reviewCards,
                   detailsOpen, usersCache, attachment, uploads, notices>>
    /\ UNCHANGED <<sizeVars, permVars, codecVars, cacheVars, resolveVars, adminVars>>

\* The write of the form with the message's components replaced as well.
EditModalWriteClearsButtons(t) ==
    /\ tasks[t].kind = "edit" /\ tasks[t].pc = "write"
    /\ LET form == tasks[t].form
           updatedEmbed ==
               [tasks[t].snap EXCEPT
                   !.fileName = Trim(form.fileName),
                   !.uploadPath = OrElse(Trim(form.path), <<RootFolderMark>>),
                   !.description = OrElse(Trim(form.description), <<NoDescriptionMark>>),
                   !.extras = <<"Last edited by">>]
       IN  reviewCards' = [reviewCards EXCEPT ![tasks[t].card] =
                              [embed |-> updatedEmbed, components |-> FALSE]]
    /\ Finish(t, "updated")
    /\ UNCHANGED <<build, dmCard, uploadRequests, approvalChannel, approvalConfig, delivered,
                   modalOpen, detailsOpen, usersCache, attachment, uploads, notices>>
    /\ UNCHANGED <<sizeVars, permVars, codecVars, cacheVars, resolveVars, adminVars>>

\* EmbedBuilder.from(embed).setFields(the seven fields): the title stays
\* that of the embed read, the fields after the six are replaced by 'Last
\* edited by'; message.edit({embeds}) leaves the buttons as they are.
EditModalWrite(t) ==
    /\ tasks[t].kind = "edit" /\ tasks[t].pc = "write"
    /\ LET form == tasks[t].form
           updatedEmbed ==
               [tasks[t].snap EXCEPT
                   !.fileName = Trim(form.fileName),
                   !.uploadPath = OrElse(Trim(form.path), <<RootFolderMark>>),
                   !.description = OrElse(Trim(form.description), <<NoDescriptionMark>>),
                   !.extras = <<"Last edited by">>]
       IN  reviewCards' = [reviewCards EXCEPT ![tasks[t].card].embed = updatedEmbed]
    /\ Finish(t, "updated")
    /\ UNCHANGED <<build, dmCard, uploadRequests, approvalChannel, approvalConfig, delivered,
                   modalOpen, detailsOpen, usersCache, attachment, uploads, notices>>
    /\ UNCHANGED <<sizeVars, permVars, codecVars, cacheVars, resolveVars, adminVars>>

\* ---- initial states

\* Requests tried in the workflow
FlowRequests ==
    [ attachmentUrl : {<<W("https://cdn/1/art.png")>>}, fileSize : {5120000},
      originalFileName : {<<W("art.png")>>}, fileName : {<<W("art.png")>>},
      description : {EmptyText, <<W("a sketch")>>},
      currentPath : {EmptyText, <<W("art"), Slash, W("2024")>>},
      found : {TRUE} ]

\* The requester is choosing a destination on the state card.
\* A request for an attachment one byte short of a megabyte
EdgeRequests ==
    { [ attachmentUrl |-> <<W("https://cdn/1/art.png")>>, fileSize |-> (K * K - 1) * 100,
        originalFileName |-> <<W("art.png")>>, fileName |-> <<W("art.png")>>,
        description |-> EmptyText, currentPath |-> EmptyText, found |-> TRUE ] }

SubmitInit ==
    /\ build = "modular"
    /\ \E request \in FlowRequests \cup EdgeRequests :
         /\ dmCard = StateCard(request)
         /\ uploadRequests \in {NoRequest, request}
         /\ attachment = AttachmentOf(request)
    /\ approvalChannel \in {NoChannel, "officers"}
    /\ approvalConfig \in ApprovalConfigs
    /\ reviewCards = <<>>
    /\ tasks = [t \in TaskIds |-> NoTask]
    /\ delivered = 0
    /\ modalOpen = FALSE
    /\ detailsOpen = FALSE
    /\ usersCache = TRUE
    /\ uploads = <<>>
    /\ notices = <<>>

\* A review card has been posted and the state card shows 'Submitted'.
\* The request was submitted without a description (an officer's form can
\* add one).
ReviewInit ==
    /\ build \in {"modular", "legacy"}
    /\ \E request \in {r \in FlowRequests : r.description = EmptyText} :
         /\ dmCard = [exists |-> TRUE, embed |-> SubmittedEmbed(request),
                      components |-> FALSE, options |-> <<>>, back |-> FALSE]
         /\ uploadRequests = request
         /\ attachment = AttachmentOf(request)
         /\ reviewCards = << [ embed |-> createApprovalEmbed(Requester, request),
                               components |-> TRUE ] >>
    /\ approvalChannel = "officers"
    /\ approvalConfig = [NoApprovalConfig EXCEPT !.defaultApprovalChannelId = "officers"]
    /\ tasks = [t \in TaskIds |-> NoTask]
    /\ delivered = 0
    /\ modalOpen = FALSE
    /\ detailsOpen = FALSE
    /\ usersCache = TRUE
    /\ uploads = <<>>
    /\ notices = <<>>

\* The backend and a folder cache built from it with every query answered.
\* The root is configured by /set-root-folder or not at all (SpecResolve
\* also tries a root given by the environment).
CacheBuiltInit ==
    /\ drive = DriveFull
    /\ \E roots \in { <<"", "">>, <<"R", "">> } :
         cfgRoot = roots[1] /\ envRoot = roots[2]
    /\ LET built == buildFolderTree(getAllFolders(CacheRootId), CacheRootId, <<>>)
       IN  /\ fcTree = built.tree
           /\ fcFlat = built.flat
           /\ fcPublished = [tree |-> built.tree, flat |-> built.flat]
    /\ rb = [i \in Rebuilders |-> RbIdle]
    /\ rbStarted = 0
    /\ rdObs = NoRead

-----------------------------------------------------------------------------
(* Path resolution: getCachedFolderIdByPath with its fallback              *)

\* await getCachedFolderIdByPath(folderPath): the id of the cache entry, or
\* what getFolderIdByPath returns and leaves in the backend.
ResolveFolderId(flat, folderPath, drv) ==
    LET cached == getCachedFolderIdByPath(flat, folderPath)
    IN  IF cached.kind = "fallback"
        THEN getFolderIdByPath(folderPath, "", drv)
        ELSE [id |-> cached.id, drive |-> drv]

\* Calls made in one run of the model
MaxResolves == 2

ResolvePaths ==
    { EmptyText, <<Slash>>, <<W("art")>>, <<W("art"), Slash, W("2024")>>,
      <<W("art"), Slash, Slash, W("new")>>, <<W("new"), Slash, W("new")>> }

ResolveIdle ==
    /\ rsPath = EmptyText
    /\ rsCalls = <<>>

ResolveInit ==
    /\ rsPath \in ResolvePaths
    /\ rsCalls = <<>>

\* The backend, and a cache built from what the backend held at the last
\* rebuild.
CacheSnapshotInit ==
    /\ drive \in Drives
    /\ \E roots \in { <<"", "">>, <<"", "R">>, <<"R", "">>, <<"R", "R">> } :
         cfgRoot = roots[1] /\ envRoot = roots[2]
    /\ \E n \in 0 .. Len(drive) :
         LET then == SubSeq(drive, 1, n)
             scanned == SelectSeq(getAllFolders(CacheRootId),
                                  LAMBDA f : f \in Range(then))
             built == buildFolderTree(scanned, CacheRootId, <<>>)
         IN  /\ fcTree = built.tree
             /\ fcFlat = built.flat
             /\ fcPublished = [tree |-> built.tree, flat |-> built.flat]
    /\ rb = [i \in Rebuilders |-> RbIdle]
    /\ rbStarted = 0
    /\ rdObs = NoRead

\* The path is resolved once more; the cache is not rebuilt in between.
ResolvePath ==
    /\ Len(rsCalls) < MaxResolves
    /\ LET r == ResolveFolderId(fcFlat, rsPath, drive)
       IN  /\ drive' = r.drive
           /\ rsCalls' = Append(rsCalls, [id |-> r.id,
                                          created |-> Len(r.drive) - Len(drive)])
    /\ UNCHANGED rsPath
    /\ UNCHANGED <<cfgRoot, envRoot, fcTree, fcFlat, fcPublished, rb, rbStarted, rdObs>>
    /\ UNCHANGED <<sizeVars, permVars, codecVars, flowVars, adminVars>>

-----------------------------------------------------------------------------
(* The admin slash commands and the periodic refresh                       *)

\* The commands createAdminCommands registers
CommandNames ==
    { "set-upload-emoji", "add-upload-channel", "remove-upload-channel",
      "set-default-approval-channel", "map-approval-channel", "refresh-folders",
      "set-root-folder", "google-auth-start", "google-auth-finish",
      "set-officer-permission", "show-config" }

\* The list of the slash-command listener of main
adminCommands ==
    { "set-upload-emoji", "add-upload-channel", "remove-upload-channel",
      "set-default-approval-channel", "map-approval-channel", "refresh-folders",
      "set-root-folder", "show-config", "google-auth-start", "google-auth-finish" }

\* The commands handleAdminCommand keeps for administrators
AdministratorCommands ==
    { "set-root-folder", "google-auth-start", "google-auth-finish",
      "set-officer-permission" }

\* Members who issue commands: an administrator, a member holding the
\* default officer permission, and a member holding neither.
Members ==
    { [name |-> "root",  administrator |-> TRUE,  permissions |-> {}],
      [name |-> "mod",   administrator |-> FALSE, permissions |-> {"ManageMessages"}],
      [name |-> "guest", administrator |-> FALSE, permissions |-> {}] }

\* member.permissions.has(flag): an administrator has every permission
hasAdminPermissions(member) == member.administrator

hasOfficerPermissions(member, config) ==
    member.administrator \/ config.officerPermission \in member.permissions

\* DEFAULT_CONFIG, with the root folder the deployment has configured
DEFAULT_CONFIG ==
    [ uploadChannels |-> <<>>, defaultApprovalChannelId |-> "",
      approvalMappings |-> {}, uploadEmoji |-> "up",
      officerPermission |-> "ManageMessages", rootFolderId |-> "R" ]

\* setApprovalMapping(uploadChannelId, approvalChannelId)
setApprovalMapping(mappings, uploadChannelId, approvalChannelId) ==
    { m \in mappings : m[1] # uploadChannelId }
        \cup { <<uploadChannelId, approvalChannelId>> }

\* addToArray / removeFromArray on a list without duplicates
addToArray(list, value) == IF value \in Range(list) THEN list ELSE Append(list, value)
removeFromArray(list, value) == SelectSeq(list, LAMBDA x : x # value)

NoTimer == -1
NoReply == [cmd |-> "none", member |-> "none", reply |-> "none"]

\* The interval of the timer and the length of the run, in ticks
RefreshTicks == 2
MaxTime == 4
MaxCommands == 2

AdminIdle ==
    /\ adConfig = DEFAULT_CONFIG
    /\ adCache = [rootId |-> "", lastUpdated |-> NoTimer, filled |-> FALSE]
    /\ adLog = <<>>
    /\ adReply = NoReply
    /\ adCount = 0
    /\ now = 0
    /\ nextTick = NoTimer

\* After the ready handler of main: the initial buildFolderCache succeeded
\* and setInterval was called, or it failed and no timer exists.
AdminInit ==
    /\ adConfig = DEFAULT_CONFIG
    /\ \E built \in BOOLEAN :
         /\ adCache = [rootId |-> "R", lastUpdated |-> IF built THEN 0 ELSE NoTimer,
                       filled |-> built]
         /\ nextTick = IF built THEN RefreshTicks ELSE NoTimer
    /\ adLog = <<>>
    /\ adReply = NoReply
    /\ adCount = 0
    /\ now = 0

\* buildFolderCache in short.  "invalid_root": the validation throws and the
\* cache is kept; "built": the cache is filled with what the traversal found
\* (a failed listing is logged inside getAllFolders and never thrown) and
\* lastUpdated = Date.now().
RebuildOutcomes == {"built", "invalid_root"}

Rebuilt(cache, outcome) ==
    IF outcome = "built" THEN [cache EXCEPT !.lastUpdated = now, !.filled = TRUE]
    ELSE cache

Logged(by, outcome) == Append(adLog, [at |-> now, by |-> by, outcome |-> outcome])

\* Time passes; a timer that is due fires before the clock moves on.
Tick ==
    /\ now < MaxTime
    /\ nextTick = NoTimer \/ now < nextTick
    /\ now' = now + 1
    /\ UNCHANGED <<adConfig, adCache, adLog, adReply, adCount, nextTick>>
    /\ UNCHANGED <<sizeVars, permVars, codecVars, cacheVars, flowVars, resolveVars>>

\* The setInterval callback of main: buildFolderCache, errors logged; the
\* next call is one interval after this one was due.
TimerFires ==
    /\ nextTick # NoTimer /\ now = nextTick
    /\ \E outcome \in RebuildOutcomes :
         /\ adCache' = Rebuilt(adCache, outcome)
         /\ adLog' = Logged("timer", outcome)
    /\ nextTick' = nextTick + RefreshTicks
    /\ UNCHANGED <<adConfig, adReply, adCount, now>>
    /\ UNCHANGED <<sizeVars, permVars, codecVars, cacheVars, flowVars, resolveVars>>

Answer(cmd, member, reply) ==
    adReply' = [cmd |-> cmd, member |-> member.name, reply |-> reply]

\* handleRefreshFolders: refreshFolderCache, which is buildFolderCache
handleRefreshFolders(member) ==
    \E outcome \in RebuildOutcomes :
       /\ adCache' = Rebuilt(adCache, outcome)
       /\ adLog' = Logged("manual", outcome)
       /\ Answer("refresh-folders", member, IF outcome = "built" THEN "ok" ELSE "failed")
       /\ UNCHANGED adConfig

\* handleSetRootFolder: the link must hold a folder id and getFolderInfo
\* must find a folder; then config.set, setRootFolder, refreshFolderCache.
handleSetRootFolder(member) ==
    \E link \in {"", "R2"}, accessible \in BOOLEAN, outcome \in RebuildOutcomes :
       IF link = ""
       THEN /\ Answer("set-root-folder", member, "invalid")
            /\ UNCHANGED <<adConfig, adCache, adLog>>
       ELSE IF ~accessible
       THEN /\ Answer("set-root-folder", member, "no_access")
            /\ UNCHANGED <<adConfig, adCache, adLog>>
       ELSE /\ adConfig' = [adConfig EXCEPT !.rootFolderId = link]
            /\ adCache' = Rebuilt([adCache EXCEPT !.rootId = link], outcome)
            /\ adLog' = Logged("manual", outcome)
            /\ Answer("set-root-folder", member,
                      IF outcome = "built" THEN "ok" ELSE "failed")

\* handleSetOfficerPermission: the name must be in PermissionFlagsBits
handleSetOfficerPermission(member) ==
    \E permission \in {"ManageGuild", "Bogus"} :
       IF permission = "Bogus"
       THEN /\ Answer("set-officer-permission", member, "invalid")
            /\ UNCHANGED <<adConfig, adCache, adLog>>
       ELSE /\ adConfig' = [adConfig EXCEPT !.officerPermission = permission]
            /\ Answer("set-officer-permission", member, "ok")
            /\ UNCHANGED <<adCache, adLog>>

\* The handlers that write the configuration only.  saved = FALSE is a
\* config file that cannot be written: currentConfig is changed all the same.
ConfigCommand(cmd, member) ==
    \E saved \in BOOLEAN :
       /\ adConfig' =
            CASE cmd = "set-upload-emoji" -> [adConfig EXCEPT !.uploadEmoji = "art"]
              [] cmd = "add-upload-channel" ->
                   [adConfig EXCEPT !.uploadChannels = addToArray(@, "art")]
              [] cmd = "remove-upload-channel" ->
                   [adConfig EXCEPT !.uploadChannels = removeFromArray(@, "art")]
              [] cmd = "set-default-approval-channel" ->
                   [adConfig EXCEPT !.defaultApprovalChannelId = "officers"]
              [] cmd = "map-approval-channel" ->
                   [adConfig EXCEPT !.approvalMappings =
                                        setApprovalMapping(@, "art", "officers")]
              [] OTHER -> adConfig
       /\ Answer(cmd, member,
                 IF cmd \in {"add-upload-channel", "remove-upload-channel"}
                    /\ adConfig' # adConfig /\ ~saved
                 THEN "failed" ELSE "ok")
       /\ UNCHANGED <<adCache, adLog>>

\* google-auth-start, google-auth-finish and show-config touch neither the
\* configuration nor the cache.
OtherCommand(cmd, member) ==
    /\ \E ok \in BOOLEAN :
          Answer(cmd, member, IF ok \/ cmd # "google-auth-finish" THEN "ok" ELSE "failed")
    /\ UNCHANGED <<adConfig, adCache, adLog>>

\* handleAdminCommand(interaction, driveService)
handleAdminCommand(cmd, member) ==
    IF cmd \in AdministratorCommands /\ ~hasAdminPermissions(member)
    THEN /\ Answer(cmd, member, "need_admin")
         /\ UNCHANGED <<adConfig, adCache, adLog>>
    ELSE IF cmd \notin AdministratorCommands /\ ~hasOfficerPermissions(member, adConfig)
    THEN /\ Answer(cmd, member, "no_permission")
         /\ UNCHANGED <<adConfig, adCache, adLog>>
    ELSE CASE cmd = "refresh-folders" -> handleRefreshFolders(member)
           [] cmd = "set-root-folder" -> handleSetRootFolder(member)
           [] cmd = "set-officer-permission" -> handleSetOfficerPermission(member)
           [] cmd \in {"google-auth-start", "google-auth-finish", "show-config"} ->
                OtherCommand(cmd, member)
           [] OTHER -> ConfigCommand(cmd, member)

\* The slash-command listener of main: a command of its list goes to
\* handleAdminCommand, any other command is left without an answer.
SlashCommand ==
    /\ adCount < MaxCommands
    /\ adCount' = adCount + 1
    /\ \E cmd \in CommandNames, member \in Members :
         IF cmd \in adminCommands
         THEN handleAdminCommand(cmd, member)
         ELSE /\ Answer(cmd, member, "none")
              /\ UNCHANGED <<adConfig, adCache, adLog>>
    /\ UNCHANGED <<now, nextTick>>
    /\ UNCHANGED <<sizeVars, permVars, codecVars, cacheVars, flowVars, resolveVars>>

-----
(* Specifications                                                          *)

InitSize == SizeInit /\ PermIdle /\ CodecIdle /\ CacheIdle /\ FlowIdle /\ ResolveIdle /\ AdminIdle
NextSize == SzFormat \/ SzParse
SpecSize == InitSize /\ [][NextSize]_vars

InitPerm == PermInit /\ SizeIdle /\ CodecIdle /\ CacheIdle /\ FlowIdle /\ ResolveIdle /\ AdminIdle
NextPerm == MessageReactionAdd
SpecPerm == InitPerm /\ [][NextPerm]_vars

InitCodec == CodecInit /\ SizeIdle /\ PermIdle /\ CacheIdle /\ FlowIdle /\ ResolveIdle /\ AdminIdle
NextCodec == CdRender \/ CdDecode
SpecCodec == InitCodec /\ [][NextCodec]_vars

InitCache == CacheInit /\ SizeIdle /\ PermIdle /\ CodecIdle /\ FlowIdle /\ ResolveIdle /\ AdminIdle
NextCache ==
    \/ \E i \in Rebuilders : RbStart(i)
    \/ \E i \in Rebuilders : RbValidated(i)
    \/ \E i \in Rebuilders : RbListed(i)
    \/ ReadSelectMenu
    \/ ReadCachedId
SpecCache == InitCache /\ [][NextCache]_vars

\* What an answered drive.files.list does to the traversal that awaits it:
\* the rb part of RbListed(i).  Under NextScan a step changes rb[i] away from
\* a "list" position exactly when it is an RbListed(i) step.
ListAnswered(i) ==
    /\ rb[i].pc = "list"
    /\ \E ok \in BOOLEAN :
         LET r2 == Listed(rb[i], IF ok THEN ListFolders(rb[i].cur) ELSE <<>>)
         IN  rb' = [rb EXCEPT ![i] = IF r2.pc = "scanned" THEN RbDone("built") ELSE r2]

\* The rebuilds alone.  Every drive.files.list call is answered, with
\* folders or with an error: the awaited promise settles.
NextScan ==
    \/ \E i \in Rebuilders : RbStart(i)
    \/ \E i \in Rebuilders : RbValidated(i)
    \/ \E i \in Rebuilders : RbListed(i)
SpecScan ==
    /\ InitCache
    /\ [][NextScan]_vars
    /\ \A i \in Rebuilders : WF_rb(ListAnswered(i))

InitSubmit == CacheIdle /\ SubmitInit /\ SizeIdle /\ PermIdle /\ CodecIdle /\ ResolveIdle /\ AdminIdle
NextSubmit ==
    \/ ConfirmDeliver
    \/ \E t \in TaskIds : ConfirmSend(t)
    \/ \E t \in TaskIds : ConfirmMark(t)
    \/ CancelDeliver
    \/ \E t \in TaskIds : CancelUpdate(t)
    \/ EditDetails
    \/ DetailsModalDeliver
    \/ \E t \in TaskIds : DetailsRender(t)
SpecSubmit == InitSubmit /\ [][NextSubmit]_vars

\* The process was restarted after the request was submitted: the
\* uploadRequests Map and client.users.cache start empty (the Client of
\* main is built anew and nothing is persisted), while the submitted state
\* card and the pending review card are still on the platform.
RestartInit ==
    /\ build \in {"modular", "legacy"}
    /\ \E request \in {r \in FlowRequests : r.description = EmptyText} :
         /\ dmCard = [exists |-> TRUE, embed |-> SubmittedEmbed(request),
                      components |-> FALSE, options |-> <<>>, back |-> FALSE]
         /\ attachment = AttachmentOf(request)
         /\ reviewCards = << [ embed |-> createApprovalEmbed(Requester, request),
                               components |-> TRUE ] >>
    /\ uploadRequests = NoRequest
    /\ approvalChannel = "officers"
    /\ approvalConfig = [NoApprovalConfig EXCEPT !.defaultApprovalChannelId = "officers"]
    /\ tasks = [t \in TaskIds |-> NoTask]
    /\ delivered = 0
    /\ modalOpen = FALSE
    /\ detailsOpen = FALSE
    /\ usersCache = FALSE
    /\ uploads = <<>>
    /\ notices = <<>>

InitReview == ReviewInit /\ CacheBuiltInit /\ SizeIdle /\ PermIdle /\ CodecIdle /\ ResolveIdle /\ AdminIdle
NextReview ==
    \/ \E c \in 1 .. Len(reviewCards) : ApproveDeliver(c)
    \/ \E t \in TaskIds : ApproveTransfer(t)
    \/ \E t \in TaskIds : ApproveMark(t)
    \/ \E t \in TaskIds : ApproveNotify(t)
    \/ \E t \in TaskIds : ApproveFail(t)
    \/ \E c \in 1 .. Len(reviewCards) : DenyDeliver(c)
    \/ \E t \in TaskIds : DenyMark(t)
    \/ \E t \in TaskIds : DenyNotify(t)
    \/ \E t \in TaskIds : DenyError(t)
    \/ \E c \in 1 .. Len(reviewCards) : OfficerEdit(c)
    \/ \E c \in 1 .. Len(reviewCards) : EditModalDeliver(c)
    \/ \E t \in TaskIds : EditModalWrite(t)
SpecReview == InitReview /\ [][NextReview]_vars

InitRestart == RestartInit /\ CacheBuiltInit /\ SizeIdle /\ PermIdle /\ CodecIdle /\ ResolveIdle /\ AdminIdle
SpecRestart == InitRestart /\ [][NextReview]_vars

\* The cache as a completed build left it, for a root and a backend, read
\* while the backend holds the folders the build saw or one folder more.
MenuInit ==
    /\ drive \in Drives \cup {DriveWide, DriveShared, DriveTwins}
    /\ \E roots \in { <<"", "">>, <<"R", "">> } :
         cfgRoot = roots[1] /\ envRoot = roots[2]
    /\ \E n \in { Len(drive) - 1, Len(drive) } :
       \E rootId \in { CacheRootId } :
       \E scanned \in { SelectSeq(getAllFolders(rootId),
                                  LAMBDA f : f \in Range(SubSeq(drive, 1, n))) } :
       \E built \in { buildFolderTree(scanned, rootId, <<>>) } :
         /\ fcTree = built.tree
         /\ fcFlat = built.flat
         /\ fcPublished = [tree |-> built.tree, flat |-> built.flat]
    /\ rb = [i \in Rebuilders |-> RbIdle]
    /\ rbStarted = 0
    /\ rdObs = NoRead

InitMenu == MenuInit /\ SizeIdle /\ PermIdle /\ CodecIdle /\ FlowIdle /\ ResolveIdle /\ AdminIdle
NextMenu ==
    \/ ReadSelectMenuAt
    \/ ReadCachedIdAt
SpecMenu == InitMenu /\ [][NextMenu]_vars

InitAdmin == AdminInit /\ SizeIdle /\ PermIdle /\ CodecIdle /\ CacheIdle /\ FlowIdle /\ ResolveIdle
NextAdmin ==
    \/ Tick
    \/ TimerFires
    \/ SlashCommand
SpecAdmin == InitAdmin /\ [][NextAdmin]_vars

\* The requester navigates on the state card while the cache holds the
\* folders of the backend: the card was sent for a request at the root or
\* has been navigated into art.
NavRequests ==
    { [r EXCEPT !.currentPath = path] :
        r \in FlowRequests \cup EdgeRequests, path \in {EmptyText, <<W("art")>>} }

NavigateInit ==
    /\ build = "modular"
    /\ drive \in {DriveFull, DriveSlash}
    /\ cfgRoot = "R"
    /\ envRoot = ""
    /\ \E built \in { buildFolderTree(getAllFolders("R"), "R", <<>>) } :
         /\ fcTree = built.tree
         /\ fcFlat = built.flat
         /\ fcPublished = [tree |-> built.tree, flat |-> built.flat]
    /\ rb = [i \in Rebuilders |-> RbIdle]
    /\ rbStarted = 0
    /\ rdObs = NoRead
    /\ \E request \in NavRequests :
         /\ dmCard = StateCard(request)
         /\ uploadRequests \in {NoRequest, request}
         /\ attachment = AttachmentOf(request)
    /\ approvalChannel = NoChannel
    /\ approvalConfig = NoApprovalConfig
    /\ reviewCards = <<>>
    /\ tasks = [t \in TaskIds |-> NoTask]
    /\ delivered = 0
    /\ modalOpen = FALSE
    /\ detailsOpen = FALSE
    /\ usersCache = TRUE
    /\ uploads = <<>>
    /\ notices = <<>>

InitNavigate == NavigateInit /\ SizeIdle /\ PermIdle /\ CodecIdle /\ ResolveIdle /\ AdminIdle
NextNavigate ==
    \/ FolderSelectDeliver
    \/ FolderBackDeliver
    \/ \E t \in TaskIds : FolderRender(t)
    \/ EditDetails
    \/ DetailsModalDeliver
    \/ \E t \in TaskIds : DetailsRender(t)
SpecNavigate == InitNavigate /\ [][NextNavigate]_vars

InitResolve ==
    ResolveInit /\ CacheSnapshotInit /\ SizeIdle /\ PermIdle /\ CodecIdle /\ FlowIdle
    /\ AdminIdle
NextResolve == ResolvePath
SpecResolve == InitResolve /\ [][NextResolve]_vars

-----------------------------------------------------------------------------
(* C1, C5, C6, C8: decisions on a review card                              *)

TerminalTitle(title) == title \in {ApprovedTitle, DeniedTitle, FailedTitle}

IsDecision(t) == tasks[t].kind \in {"approve", "deny"}

UploadedBy(t) == \E i \in 1 .. Len(uploads) : uploads[i].task = t

NoticedBy(t) == \E i \in 1 .. Len(notices) : notices[i].task = t

\* C1 (as claimed): an approve or deny pressed on a review card that is
\* already rendered APPROVED, DENIED or FAILED is answered 'already
\* processed', uploads nothing and sends the requester nothing.
C1_TerminalIdempotence ==
    \A t \in TaskIds :
        (IsDecision(t) /\ TerminalTitle(tasks[t].snap.title))
            => /\ tasks[t].reply = "already_processed"
               /\ ~UploadedBy(t)
               /\ ~NoticedBy(t)

\* The folder at the end of the path under rootId in the backend, "" when
\* a part of the path is not there.
RECURSIVE FindFolder(_, _, _)
FindFolder(parts, parentId, drv) ==
    IF parts = <<>> THEN parentId
    ELSE LET files == SelectSeq(drv, LAMBDA f :
                         f.name = Head(parts) /\ parentId \in Range(f.parents))
         IN  IF files = <<>> THEN "" ELSE FindFolder(Tail(parts), files[1].id, drv)

\* C5 (as claimed): a file uploaded by an approval lies in the folder at the
\* end of the card's destination path under the configured root, the root
\* the folder cache mirrors; with an empty path, in that root itself.
C5_UploadUnderConfiguredRoot ==
    build = "modular" =>
        \A i \in 1 .. Len(uploads) :
            uploads[i].folderId =
                FindFolder(SelectSeq(Split(uploads[i].path), LAMBDA part : Len(part) > 0),
                           CacheRootId, drive)

\* C6 (as claimed): the write of an officer edit leaves a review card that
\* is rendered APPROVED, DENIED or FAILED as it is.
C6_EditOnlyWhilePending ==
    [][ \A t \in TaskIds :
          ( /\ tasks[t].kind = "edit" /\ tasks[t].pc = "write"
            /\ tasks'[t].pc = "done"
            /\ TerminalTitle(reviewCards[tasks[t].card].embed.title) )
          => reviewCards'[tasks[t].card] = reviewCards[tasks[t].card] ]_vars

\* C8: the check of approve and deny looks at nothing but the title of the
\* card as it was when the button was pressed: a decision is answered
\* 'already processed' exactly when that title is a terminal one.  So two
\* decisions pressed on the same pending card both go through.
C8_GuardReadsSnapshotOnly ==
    build = "modular" =>
        \A t \in TaskIds :
            IsDecision(t) =>
                (tasks[t].reply = "already_processed" <=> TerminalTitle(tasks[t].snap.title))

\* Two decisions pressed on the same pending card have both taken effect:
\* two uploads, or an upload and a denial notice.
C8_Witness ==
    /\ build = "modular"
    /\ \E t1, t2 \in TaskIds :
         /\ t1 # t2
         /\ tasks[t1].card = tasks[t2].card
         /\ tasks[t1].kind = "approve" /\ tasks[t1].snap.title = ReviewTitle
         /\ IsDecision(t2) /\ tasks[t2].snap.title = ReviewTitle
         /\ UploadedBy(t1)
         /\ UploadedBy(t2) \/ (tasks[t2].kind = "deny" /\ NoticedBy(t2))

\* C11 (as claimed): an approval whose destination path is in no entry of
\* the cache fails only on a fault of the download or of the upload itself;
\* otherwise its file is created in the folder the lookup of the path in
\* the backend ends at.
C11_StaleCacheFallback ==
    \A t \in TaskIds :
        ( /\ tasks[t].kind = "approve"
          /\ tasks[t].pc \notin {"transfer", "done"} \/ tasks[t].reply \in {"approved", "failed"}
          /\ getCachedFolderIdByPath(fcFlat, UploadPathOf(tasks[t].snap)).kind = "fallback" )
        => \/ tasks[t].error \in {"download", "upload"}
           \/ \E i \in 1 .. Len(uploads) :
                /\ uploads[i].task = t
                /\ uploads[i].folderId =
                     FindFolder(SelectSeq(Split(uploads[i].path), LAMBDA part : Len(part) > 0),
                                PathRootId(""), drive)

-----------------------------------------------------------------------------
(* C12: resolving a path again                                             *)

\* C12: every call after the first returns the id the first call returned
\* and creates no folder.
C12_ResolutionIdempotent ==
    \A i \in 2 .. Len(rsCalls) :
        rsCalls[i].id = rsCalls[1].id /\ rsCalls[i].created = 0

\* The path was resolved twice, and the first call created folders.
C12_Witness ==
    Len(rsCalls) >= 2 /\ rsCalls[1].created > 0

-----------------------------------------------------------------------------
(* C13, C14: parent cycles                                                 *)

\* Entries i and j of a flat index are each other's parent.
ParentCycle(flat, i, j) ==
    /\ i # j
    /\ flat[i].parentId = flat[j].id
    /\ flat[j].parentId = flat[i].id

\* Rebuilder i's step asks the backend for a parent it has not asked for
\* before in this traversal.
QueriesNewParent(i) ==
    (rb[i].pc = "list" /\ rb'[i].pc = "list" /\ rb'[i] # rb[i])
        => /\ rb'[i].cur \notin rb[i].processed
           /\ rb'[i].processed = rb[i].processed \cup {rb'[i].cur}

\* C14: within one traversal no parent id is listed twice, and every
\* traversal ends, also on a backend whose listings contain a cycle.
C14_TraversalTerminates ==
    /\ [][\A i \in Rebuilders : QueriesNewParent(i)]_vars
    /\ \A i \in Rebuilders : (rb[i].pc = "list") ~> (rb[i].pc = "idle")

\* A rebuild over the backend with the parent cycle has ended and indexed
\* both folders of the cycle.
C14_Witness ==
    /\ drive = DriveCycle
    /\ ~Rebuilding
    /\ \E i, j \in 1 .. Len(fcPublished.flat) : ParentCycle(fcPublished.flat, i, j)

\* C13 (as claimed): in the index a rebuild leaves, two folders that are
\* each other's parent both have their own name as path.
C13_CyclePathsAreNames ==
    \A i, j \in 1 .. Len(fcPublished.flat) :
        ParentCycle(fcPublished.flat, i, j)
            => fcPublished.flat[i].path = fcPublished.flat[i].name

-----------------------------------------------------------------------------
(* C7: review cards per request                                            *)

\* C15: a buildFolderCache call whose root cannot be read or is not a folder
\* ends with 'Invalid root folder' thrown to its caller, and no step of that
\* call (the start of the validation, its failure) changes the cache: tree
\* and flat index stay exactly as they were.
AbortsOnInvalidRoot(i) ==
    /\ (rb[i].pc = "idle" /\ rb'[i].pc = "validate")
           => fcTree' = fcTree /\ fcFlat' = fcFlat
    /\ (rb[i].pc = "validate" /\ rb'[i] # rb[i] /\ ~IsDriveFolder(rb[i].rootId))
           => rb'[i].pc = "idle"
    /\ (rb[i].pc = "validate" /\ rb'[i].pc = "idle")
           => /\ rb'[i].outcome = "invalid_root"
              /\ fcTree' = fcTree
              /\ fcFlat' = fcFlat

C15_InvalidRootKeepsSnapshot == [][\A i \in Rebuilders : AbortsOnInvalidRoot(i)]_vars

\* The one caller there has been built the cache and then had a call
\* aborted: the cache still holds the folders of its first call.
C15_Witness ==
    /\ fcFlat # <<>>
    /\ fcFlat = fcPublished.flat
    /\ \E i \in Rebuilders :
         /\ rb[i].outcome = "invalid_root"
         /\ \A j \in Rebuilders \ {i} : rb[j] = RbIdle

\* C16: a confirm on a card that decodes, with no approval channel found, is
\* refused: the handler ends at once with the 'not configured' reply, shown
\* to the requester only, and leaves the state card and the review cards as
\* they were; without an approval channel no review card is ever posted.
RefusedWithoutDestination ==
    ( /\ delivered' = delivered + 1
      /\ tasks'[delivered'].kind = "confirm"
      /\ tasks'[delivered'].req.found
      /\ approvalChannel = NoChannel )
    => /\ tasks'[delivered'].pc = "done"
       /\ tasks'[delivered'].reply = "not_configured"
       /\ dmCard' = dmCard
       /\ reviewCards' = reviewCards

C17_ReviewCardInMappedDestination ==
    reviewCards # <<>>
        => approvalChannel = getApprovalChannelFor(approvalConfig, SourceChannel)

\* C18: a requester's transition delivered while the state card does not
\* decode ends at once with the 'expired or not found' reply and changes
\* neither the card nor the uploadRequests Map.
ExpiredWhenUndecodable ==
    ( /\ delivered' = delivered + 1
      /\ ~extractRequestFromDMEmbed(dmCard.embed).found )
    => /\ tasks'[delivered'].pc = "done"
       /\ tasks'[delivered'].reply = "expired"
       /\ dmCard' = dmCard
       /\ uploadRequests' = uploadRequests

C18_UndecodableTargetIsExpired == [][ExpiredWhenUndecodable]_vars

\* C19: the state card is rewritten to the cancellation notice only while no
\* review card has been posted for the request, and once it shows the notice
\* no step changes it or posts a review card.
CancelOnlyBeforeReview ==
    (dmCard'.embed = CancelledEmbed /\ dmCard.embed # CancelledEmbed)
        => reviewCards = <<>>

CancelledStays ==
    dmCard.embed = CancelledEmbed
        => dmCard' = dmCard /\ reviewCards' = reviewCards

C19_CancelIsTerminal == [][CancelOnlyBeforeReview /\ CancelledStays]_vars

\* C20: when an approve pressed on a pending card has uploaded the file and
\* its handler has ended, the review card is an APPROVED receipt with the
\* 'Approved by' field and no buttons, the requester's state card is deleted,
\* and the requester has been sent the success notification.
C20_ApprovedOutcome ==
    \A t \in TaskIds :
        (tasks[t].kind = "approve" /\ tasks[t].pc = "done" /\ UploadedBy(t))
        => /\ reviewCards[tasks[t].card].embed.title = ApprovedTitle
           /\ "Approved by" \in Range(reviewCards[tasks[t].card].embed.extras)
           /\ ~reviewCards[tasks[t].card].components
           /\ ~dmCard.exists
           /\ \E i \in 1 .. Len(notices) :
                  notices[i].task = t /\ notices[i].kind = "approved"

\* C21: the step that sends an approve to its catch block neither deletes
\* the requester's state card nor sends the requester anything (the steps of
\* the handler before it never do), and the step that ends the approve as
\* failed leaves the review card a FAILED receipt with the error, no buttons.
FailsQuietly(t) ==
    (tasks[t].kind = "approve" /\ tasks[t].pc # "failed" /\ tasks'[t].pc = "failed")
        => dmCard' = dmCard /\ notices' = notices

FailedReceipt(t) ==
    (tasks[t].kind = "approve" /\ tasks[t].reply # "failed" /\ tasks'[t].reply = "failed")
        => /\ reviewCards'[tasks[t].card].embed.title = FailedTitle
           /\ "Error" \in Range(reviewCards'[tasks[t].card].embed.extras)
           /\ ~reviewCards'[tasks[t].card].components

C21_FailedLeavesRequesterAlone ==
    [][\A t \in TaskIds : FailsQuietly(t) /\ FailedReceipt(t)]_vars

\* C22: when a deny pressed on a pending card has ended, it has uploaded
\* nothing, the review card is a DENIED receipt with the 'Denied by' field
\* and no buttons, the requester's state card is deleted, and the requester
\* has been sent the denial notification.
C22_DenyOutcome ==
    \A t \in TaskIds :
        ( /\ tasks[t].kind = "deny"
          /\ tasks[t].pc = "done"
          /\ tasks[t].reply \notin {"already_processed", "missing"} )
        => /\ ~UploadedBy(t)
           /\ reviewCards[tasks[t].card].embed.title = DeniedTitle
           /\ "Denied by" \in Range(reviewCards[tasks[t].card].embed.extras)
           /\ ~reviewCards[tasks[t].card].components
           /\ ~dmCard.exists
           /\ \E i \in 1 .. Len(notices) :
                  notices[i].task = t /\ notices[i].kind = "denied"

\* C23 (as claimed): after a restart that emptied the request map and the
\* client's caches, an approve or a deny pressed on the intact pending
\* review card has the effect it has without the restart: the handler that
\* answers with its outcome has tried to delete the requester's state card
\* (the deletion is not skipped).
C23_RestartKeepsCleanup ==
    \A t \in TaskIds :
        ( /\ tasks[t].kind \in {"approve", "deny"}
          /\ tasks[t].pc = "done"
          /\ tasks[t].reply \in {"approved", "denied"} )
        => tasks[t].cleanup \in {"deleted", "failed"}

\* C24 (as claimed): the URL, the original file name and the size shown on
\* the state card and on the review card stay what was rendered when the
\* request was created from the attachment: a state card that shows the
\* request carries the file line of the attachment, and every review card
\* shows the attachment's URL and the attachment's size as first formatted.
SourceLine(a) ==
    FolderSelectionEmbed([NoRequest EXCEPT !.attachmentUrl = a.url,
                                           !.originalFileName = a.name,
                                           !.fileSize = a.size * 100]).description

C24_SourceReferenceImmutable ==
    /\ ( dmCard.exists /\ dmCard.embed.title \in {StateCardTitle, SubmittedTitle} )
       => dmCard.embed.description = SourceLine(attachment)
    /\ \A c \in 1 .. Len(reviewCards) :
          /\ reviewCards[c].embed.originalFile = attachment.url
          /\ reviewCards[c].embed.fileSize = formatFileSize(attachment.size)

\* C25 (as claimed): a manual refresh resets the baseline of the timer:
\* every rebuild the timer triggers after a manual refresh comes at least
\* one full refresh interval after it.
C25_ManualRefreshResetsTimer ==
    \A i \in 1 .. Len(adLog) : \A j \in 1 .. Len(adLog) :
        ( i < j /\ adLog[i].by = "manual" /\ adLog[j].by = "timer" )
        => adLog[j].at - adLog[i].at >= RefreshTicks

\* C28 (as claimed): a command issued by a member who lacks the permission
\* it requires (Administrator for the four administrator commands, the
\* officer permission for the others) is answered with a permission error
\* and changes neither the configuration nor the cache.
LacksPermission(cmd, name, config) ==
    \E member \in Members :
        /\ member.name = name
        /\ IF cmd \in AdministratorCommands
           THEN ~hasAdminPermissions(member)
           ELSE ~hasOfficerPermissions(member, config)

C28_PermissionErrorChangesNothing ==
    [][ ( adCount' = adCount + 1
          /\ LacksPermission(adReply'.cmd, adReply'.member, adConfig) )
        => /\ adReply'.reply \in {"need_admin", "no_permission"}
           /\ adConfig' = adConfig
           /\ adCache' = adCache ]_vars

\* The chains of folders a path names in a tree, one folder per segment
Chains(tree, parts) ==
    { ids \in [1 .. Len(parts) -> DOMAIN tree.kids] :
        /\ parts[1] \in DOMAIN tree.top
        /\ tree.top[parts[1]] = ids[1]
        /\ \A k \in 2 .. Len(parts) :
              /\ parts[k] \in DOMAIN tree.kids[ids[k - 1]]
              /\ tree.kids[ids[k - 1]][parts[k]] = ids[k] }

Resolves(tree, path) == path = EmptyText \/ Chains(tree, Split(path)) # {}

\* The names of the immediate children of the node at the path
ChildrenAt(tree, path) ==
    IF path = EmptyText THEN DOMAIN tree.top
    ELSE LET parts == Split(path)
             cs == Chains(tree, parts)
         IN  IF cs = {} THEN {}
             ELSE DOMAIN tree.kids[(CHOOSE ids \in cs : TRUE)[Len(parts)]]

\* Alphabetical order of the names without regard to case: the lower-case
\* form of the text, then the number that follows it
LowerCase(str) ==
    CASE str = "Misc" -> "misc" [] str = "Shared" -> "shared" [] OTHER -> str

Alphabet == <<"2024", "art", "folder", "misc", "shared">>

LetterRank(name) ==
    CHOOSE k \in 1 .. Len(Alphabet) : Alphabet[k] = LowerCase(name[1].s)

ComesBefore(a, b) ==
    \/ LetterRank(a) < LetterRank(b)
    \/ LetterRank(a) = LetterRank(b) /\ a[1].n < b[1].n

\* C26: getFoldersForSelectMenu(path) returns only immediate children of
\* the node at the path (the top level for the empty path), each with the
\* path extended by its name, in case-insensitive alphabetical order, the
\* first 25 of them at most, and the empty list when a segment of the path
\* does not resolve.
C26_SelectMenuListing ==
    rdObs.kind = "menu" =>
        LET res == rdObs.result
            children == ChildrenAt(fcTree, rdObs.path)
            labels == { res[i].label : i \in 1 .. Len(res) }
        IN  /\ Len(res) <= SelectMenuLimit
            /\ ~Resolves(fcTree, rdObs.path) => res = <<>>
            /\ labels \subseteq children
            /\ \A i \in 1 .. Len(res) :
                  res[i].value = JoinPath(rdObs.path, res[i].label)
            /\ \A i \in 1 .. Len(res) : \A j \in 1 .. Len(res) :
                  i < j => ComesBefore(res[i].label, res[j].label)
            /\ \A n \in children \ labels :
                  /\ Len(res) = SelectMenuLimit
                  /\ \A m \in labels : ComesBefore(m, n)

\* The top level holds more folders than the menu shows and 25 are returned.
C26_Witness ==
    /\ rdObs.kind = "menu"
    /\ rdObs.path = EmptyText
    /\ Cardinality(DOMAIN fcTree.top) > SelectMenuLimit
    /\ Len(rdObs.result) = SelectMenuLimit

\* The parent a folder declares: the first entry of its parents
DeclaredParent(id) ==
    IF \E i \in 1 .. Len(drive) : drive[i].id = id /\ drive[i].parents # <<>>
    THEN (CHOOSE f \in Range(drive) : f.id = id).parents[1]
    ELSE ""

RECURSIVE EndsAtRoot(_, _)
EndsAtRoot(id, hops) ==
    IF id = CacheRootId THEN TRUE
    ELSE IF hops = 0 \/ id = "" THEN FALSE
    ELSE EndsAtRoot(DeclaredParent(id), hops - 1)

InScope(id) == EndsAtRoot(DeclaredParent(id), Len(drive))

\* The ids of the folders a picker listing shows for a path
ListedIds(tree, path) ==
    IF path = EmptyText THEN { tree.top[n] : n \in DOMAIN tree.top }
    ELSE LET parts == Split(path)
             cs == Chains(tree, parts)
         IN  IF cs = {} THEN {}
             ELSE LET level == tree.kids[(CHOOSE ids \in cs : TRUE)[Len(parts)]]
                  IN  { level[n] : n \in DOMAIN level }

\* C27 (as claimed): every folder the cache exposes, through the picker
\* listing or through the cache-based path resolution, has a chain of
\* declared parents that ends at the configured root.
C27_CacheScope ==
    /\ ( rdObs.kind = "menu" /\ rdObs.result # <<>> )
       => \A id \in ListedIds(fcTree, rdObs.path) : InScope(id)
    /\ ( rdObs.kind = "id" /\ rdObs.result.kind = "cached" )
       => InScope(rdObs.result.id)

\* C29 (as claimed): once confirm has rewritten the state card to the
\* submitted receipt, no later event, the submission of an edit-details
\* form opened before the confirm included, renders it as an interactive
\* card again.
C29_SubmittedStaysReceipt ==
    [][ ( dmCard.exists /\ dmCard.embed.title = SubmittedTitle )
        => ~( dmCard'.exists /\ dmCard'.components ) ]_vars

\* C30 (as claimed): an approve ends as failed only if it has uploaded no
\* file, and every approve that has uploaded the file ends as approved.
C30_FailedOnlyWithoutUpload ==
    \A t \in TaskIds :
        tasks[t].kind = "approve"
        => /\ tasks[t].reply = "failed" => ~UploadedBy(t)
           /\ ( tasks[t].pc = "done" /\ UploadedBy(t) ) => tasks[t].reply = "approved"

\* The ids of the folders that a chain of parents links to the given ones
RECURSIVE ReachFrom(_, _)
ReachFrom(found, frontier) ==
    IF frontier = {} THEN found
    ELSE LET below == { drive[i].id : i \in { k \in 1 .. Len(drive) :
                                               Range(drive[k].parents) \cap frontier # {} } }
         IN  ReachFrom(found \cup below, below \ found)

FlatIds(flat) == { flat[k].id : k \in 1 .. Len(flat) }

\* C31 (as claimed): a buildFolderCache call that ends by publishing a
\* snapshot publishes every folder reachable from its root, never a part
\* of them: a rebuild with a failed list-children query publishes nothing.
C31_PublishedIsComplete ==
    [][ \A i \in Rebuilders :
          ( rb[i].pc = "list" /\ rb'[i].pc = "idle" /\ rb'[i].outcome = "built" )
          => ReachFrom({}, {rb[i].rootId}) \subseteq FlatIds(fcPublished'.flat) ]_vars

\* C32 (as claimed): from the ready handler on, the timer triggers a
\* rebuild at every refresh interval, whatever the outcome of the rebuilds
\* before it, the initial one included.
C32_RebuildEveryInterval ==
    \A k \in 1 .. MaxTime :
        ( k % RefreshTicks = 0 /\ k < now )
        => \E j \in 1 .. Len(adLog) : adLog[j].at = k /\ adLog[j].by = "timer"

\* What the traversals of getAllFolders can return from a position on: each
\* listing is answered with the folders under the parent or fails
RECURSIVE ScansFrom(_)
ScansFrom(r) ==
    IF r.pc = "scanned" THEN {r.folders}
    ELSE ScansFrom(Listed(r, ListFolders(r.cur))) \cup ScansFrom(Listed(r, <<>>))

Traversals(rootId) ==
    ScansFrom(NextToList([RbIdle EXCEPT !.rootId = rootId, !.toProcess = <<rootId>>]))

\* C33 (as claimed): whenever no rebuild is in progress, after a rebuild
\* that built the cache, tree and flat index together are what one
\* traversal from the configured root gives, also after rebuilds that
\* overlapped.
C33_SnapshotOfOneTraversal ==
    ( ~Rebuilding /\ \E i \in Rebuilders : rb[i].outcome = "built" )
    => \E folders \in Traversals(CacheRootId) :
          LET built == buildFolderTree(folders, CacheRootId, <<>>)
          IN  fcTree = built.tree /\ fcFlat = built.flat

\* The folder the tree holds at a path that resolves in it
NodeAt(tree, path) ==
    LET parts == Split(path)
    IN  (CHOOSE ids \in Chains(tree, parts) : TRUE)[Len(parts)]

\* C34 (as claimed): for every path that navigation can reach in the tree,
\* getCachedFolderIdByPath returns the id of the tree node at the path, the
\* folder whose children the picker lists for it.
C34_CacheResolvesTreeNode ==
    ( rdObs.kind = "id" /\ rdObs.path # EmptyText /\ Resolves(fcTree, rdObs.path) )
    => /\ rdObs.result.kind = "cached"
       /\ rdObs.result.id = NodeAt(fcTree, rdObs.path)

\* The destination path a state card shows
PathShown(embed) == IF embed.location = <<RootMark>> THEN EmptyText ELSE embed.location

\* C35 (as claimed): navigate-into is made with a name f the picker listed
\* on the card, and re-renders the same card with the path p/f (f alone
\* when p is empty), p being the path the card showed; target file name,
\* description and source line are those of the card it was made on.
C35_NavigateInto ==
    [][ \A t \in TaskIds :
          /\ ( tasks[t].kind = "none" /\ tasks'[t].kind = "select" )
             => \E k \in 1 .. Len(dmCard.options) :
                   /\ tasks'[t].form.path = dmCard.options[k].value
                   /\ tasks'[t].form.path =
                         JoinPath(PathShown(dmCard.embed), dmCard.options[k].label)
          /\ ( tasks[t].kind = "select" /\ tasks[t].pc = "render" /\ tasks'[t].pc = "done" )
             => /\ tasks'[t].reply = "rendered"
                /\ dmCard'.exists /\ dmCard'.components
                /\ PathShown(dmCard'.embed) = tasks[t].form.path
                /\ dmCard'.embed.fileName = tasks[t].snap.fileName
                /\ dmCard'.embed.descriptionField = tasks[t].snap.descriptionField
                /\ dmCard'.embed.description = tasks[t].snap.description ]_vars

\* C36 (as claimed): navigate-back made on the card that a navigate-into
\* rendered brings back the path shown before the navigate-into, whatever
\* folder the picker offered; the Back button is on the card only when the
\* path is not empty.
C36_BackUndoesNavigateInto ==
    /\ ( /\ tasks[1].kind = "select" /\ tasks[1].reply = "rendered"
         /\ tasks[2].kind = "back" /\ tasks[2].reply = "rendered"
         /\ PathShown(tasks[2].snap) = tasks[1].form.path )
       => PathShown(dmCard.embed) = PathShown(tasks[1].snap)
    /\ ( dmCard.exists /\ dmCard.components /\ dmCard.back )
       => PathShown(dmCard.embed) # EmptyText

\* C37 (as claimed): a submitted edit-details form re-renders the state
\* card with the file name and the description of the form; the path and
\* the source line are those the card showed when the form was submitted.
C37_EditDetailsFrame ==
    [][ \A t \in TaskIds :
          ( tasks[t].kind = "details" /\ tasks[t].pc = "render"
            /\ tasks'[t].reply = "rendered" )
          => /\ dmCard'.embed.fileName = tasks[t].form.fileName
             /\ dmCard'.embed.descriptionField = OrElse(tasks[t].form.description, <<NoneMark>>)
             /\ PathShown(dmCard'.embed) = PathShown(tasks[t].snap)
             /\ dmCard'.embed.description = tasks[t].snap.description ]_vars

\* C38: the write of an officer's form, submitted on a pending review card
\* that is still pending when the write is made, puts the form's file
\* name, upload path and description on the card and records the editor;
\* requester, size, source URL, title and buttons are left as they were,
\* so the card stays pending.
C38_OfficerEditFrame ==
    [][ \A t \in TaskIds :
          ( /\ tasks[t].kind = "edit" /\ tasks[t].pc = "write"
            /\ tasks'[t].pc = "done"
            /\ tasks[t].snap.title = ReviewTitle
            /\ reviewCards[tasks[t].card].embed.title = ReviewTitle )
          => LET before == reviewCards[tasks[t].card]
                 after == reviewCards'[tasks[t].card]
             IN  /\ after.embed.fileName = Trim(tasks[t].form.fileName)
                 /\ after.embed.uploadPath =
                       OrElse(Trim(tasks[t].form.path), <<RootFolderMark>>)
                 /\ after.embed.description =
                       OrElse(Trim(tasks[t].form.description), <<NoDescriptionMark>>)
                 /\ "Last edited by" \in Range(after.embed.extras)
                 /\ after.embed.requestedBy = before.embed.requestedBy
                 /\ after.embed.fileSize = before.embed.fileSize
                 /\ after.embed.originalFile = before.embed.originalFile
                 /\ after.embed.title = ReviewTitle
                 /\ after.components = before.components
                 /\ \A c \in 1 .. Len(reviewCards) :
                       c # tasks[t].card => reviewCards'[c] = reviewCards[c] ]_vars

\* An officer's form has been written on a pending card: the card shows
\* the new file name and path, and still has its title and its buttons.
C38_Witness ==
    \E t \in TaskIds :
        /\ tasks[t].kind = "edit" /\ tasks[t].reply = "updated"
        /\ reviewCards[tasks[t].card].embed.title = ReviewTitle
        /\ reviewCards[tasks[t].card].components
        /\ reviewCards[tasks[t].card].embed.fileName = <<W("final.png")>>
        /\ reviewCards[tasks[t].card].embed.uploadPath = <<W("art")>>
        /\ reviewCards[tasks[t].card].embed.extras = <<"Last edited by">>

\* C39 (as claimed): every command that createAdminCommands registers is
\* handed to handleAdminCommand when it is invoked, and so is answered.
C39_EveryCommandRouted ==
    ( adReply.cmd \in CommandNames ) => adReply.reply # "none"

\* C7 (as claimed): whatever the requester presses on the state card, and
\* in whatever order the handlers run, at most one review card of the
\* request is pending in the approval channel.
C7_OneReviewCard ==
    Cardinality({ c \in 1 .. Len(reviewCards) :
                    reviewCards[c].embed.title = ReviewTitle }) <= 1

-----------------------------------------------------------------------------
(* C4: round trip of the size text                                         *)

\* C4 (as claimed): for every byte size n, parseFileSize(formatFileSize(n))
\* is the integer n again.
C4_SizeRoundTrip ==
    szPc = "done" => szParsed = 100 * szBytes

-----------------------------------------------------------------------------
(* C2: readers during a rebuild                                            *)

\* C2 (as claimed): a read of the cache made while a rebuild is in progress
\* returns what the previous complete snapshot gives; no reader sees an
\* empty or partly filled cache.
C2_ReadersSeePreviousSnapshot ==
    (rdObs.kind # "none" /\ rdObs.rebuilding) => rdObs.result = rdObs.onPublished

-----------------------------------------------------------------------------
(* C3: round trip of the state card                                        *)

\* C3 (as claimed): decoding the rendered card returns the request's
\* destination path, target file name, description, original file name and
\* attachment URL.
C3_CardRoundTrip ==
    cdPc = "done" =>
        /\ cdOut.found
        /\ cdOut.currentPath = cdReq.currentPath
        /\ cdOut.fileName = cdReq.fileName
        /\ cdOut.description = cdReq.description
        /\ cdOut.originalFileName = cdReq.originalFileName
        /\ cdOut.attachmentUrl = cdReq.attachmentUrl

-----------------------------------------------------------------------------
(* C9, C10: the permission gate                                            *)

\* The configured officer permission, as the README states it: the member
\* can be looked up in the message's guild and has the permission.
HoldsOfficerPermission(ev, cfg) ==
    /\ ev.hasGuild
    /\ ev.lookupOk
    /\ cfg.officerPermission # ""
    /\ \/ cfg.officerPermission \in MemberPermissions(ev.user)
       \/ "Administrator" \in MemberPermissions(ev.user)

\* The handler saw the upload emoji on a message it could fetch, from a
\* user that is not a bot.
IsUploadReaction(ev, cfg) ==
    ev # NoEvent /\ ~ev.bot /\ ev.fetchOk /\ ev.emoji = cfg.uploadEmoji

\* C9 (as claimed): a reaction with the upload emoji by an actor who is
\* neither the author nor an officer sends that actor no message and stores
\* no request, whatever channel the message is in.
C9_PermissionSilence ==
    ( /\ IsUploadReaction(pmEvent, pmConfig)
      /\ pmEvent.user # pmEvent.author
      /\ ~HoldsOfficerPermission(pmEvent, pmConfig) )
    => (pmOut.dms = 0 /\ ~pmOut.request)

\* C10: whenever canTriggerUpload was called, it allowed exactly when the
\* user is the author of the message or holds the officer permission in the
\* message's guild (no guild, or a failed member lookup: disallowed).
C10_CanTriggerUploadRule ==
    (pmEvent # NoEvent /\ pmCheck # NoCheck) =>
        ( pmCheck.canUpload <=>
            (pmEvent.user = pmEvent.author \/ HoldsOfficerPermission(pmEvent, pmConfig)) )

\* Witness of C10: an officer who is not the author was allowed, and a user
\* without the permission was refused, in one run.
C10_Witness ==
    /\ pmCheck.reason = "officer_permission"
    /\ pmEvent # NoEvent
    /\ pmEvent.user # pmEvent.author
    /\ pmOut.request

====
